---- MODULE Spec2Model ----
(***************************************************************************)
(* A model of the fhevm-sdk core (value encoder, encryption and decryption *)
(* adapters, client session, retry helper), of its React hooks (useFHEVM,  *)
(* useFHEVMWrite, useFHEVMRead) and of the PrivateMuseumVisitTracker       *)
(* contract of the museum example.                                         *)
(*                                                                         *)
(* JavaScript bigints are arbitrary-precision; TLC's integers are 32-bit.  *)
(* A bigint is therefore a record [kind |-> "int", neg, mag] whose mag is  *)
(* the magnitude in base 65536, most significant limb first, with no       *)
(* leading zero limb (zero is the empty sequence).                         *)
(***************************************************************************)
EXTENDS Integers, Sequences, FiniteSets, TLC

VARIABLES
    encArg,     \* value encoder: the (value, type) argument of toBigInt
    encRet,     \* value encoder: what toBigInt did with it
    validRet,   \* value encoder: what isValidValue did with the same argument
    client,     \* adapters: the FHEVMClient the caller passes (or null)
    call,       \* adapters: the adapter call in flight: op, arg, pc, instance
    subs,       \* adapters: the promises of the decryptValue calls of the call
    result,     \* adapters: the settlement of the call's own promise
    instLog,    \* adapters: the calls the call made on the FHE instance, in order
    answers,    \* adapters: what the gateway answered to each of these calls
    completed,  \* adapters: the indexes of the answered calls, in the order of the answers
    encCalls,   \* session: the encryption calls made on the client, in flight or settled
    builders,   \* session: the encrypted-input builders the instance created, in order
    config,     \* createFHEVMClient: which fields its config argument holds
    createPc,   \* createFHEVMClient: where the call stands
    createLog,  \* createFHEVMClient: the library and network calls it made, in order
    createRet,  \* createFHEVMClient: the settlement of its promise
    retryArgs,  \* retry: maxRetries and baseDelay
    retryPc,    \* retry: where the call stands
    loopI,      \* retry: the loop index i
    lastError,  \* retry: the local of that name
    attempts,   \* retry: the outcomes of the invocations of fn so far, in order
    running,    \* retry: the invocations of fn that have not settled
    delays,     \* retry: the delays of the timers set so far, in order
    retryRet,   \* retry: the settlement of its promise
    hookConfig, \* useFHEVM: the config argument of the hook
    hookState,  \* useFHEVM: the hook's state: client, isConnected, isLoading, error
    connects,   \* useFHEVM: the configs of the connect calls awaiting createFHEVMClient
    disconnectedSince, \* useFHEVM: disconnect() was called and connect was not called since
    hookCall,   \* useFHEVM: the operation in flight: op, pc, adapter settlement, own settlement
    writeHook,  \* useFHEVMWrite: the hook's arguments: client, and whether the function exists
    writeState, \* useFHEVMWrite: the hook's state: isLoading, error, txHash
    writes,     \* useFHEVMWrite: the write calls: pc, settlements of the contract call, of tx.wait(), of the call
    readHook,   \* useFHEVMRead: the hook's arguments: client, and whether args is passed
    readState,  \* useFHEVMRead: the hook's state: data, isLoading, error
    readRender, \* useFHEVMRead: whether a render is pending, whether an effect is
    reads,      \* useFHEVMRead: the number of contract reads in flight
    refetches,  \* useFHEVMRead: the number of refetch() calls made
    owner,                   \* contract: address public owner
    museumManager,           \* contract: address public museumManager
    totalExhibitions,        \* contract: uint32 public totalExhibitions
    totalRegisteredVisitors, \* contract: uint32 public totalRegisteredVisitors
    exhibitions,             \* contract: mapping(uint32 => Exhibition)
    visitorProfiles,         \* contract: mapping(address => VisitorProfile)
    visitRecords,            \* contract: mapping(address => mapping(uint32 => PrivateVisitRecord))
    exhibitionVisitors,      \* contract: mapping(uint32 => address[])
    typeVisitorCounts,       \* contract: mapping(ExhibitionType => euint32)
    dailyVisitorCounts,      \* contract: mapping(uint32 => euint32), by day
    ageGroupCounts,          \* contract: mapping(AgeGroup => euint32)
    lastTx                   \* contract: the last transaction: function, sender, whether it reverted

encoderVars == <<encArg, encRet, validRet>>
adapterVars == <<client, call, subs, result, instLog, answers, completed>>
sessionVars == <<encCalls, builders>>
createVars == <<config, createPc, createLog, createRet>>
retryVars == <<retryArgs, retryPc, loopI, lastError, attempts, running, delays, retryRet>>
hookVars == <<hookConfig, hookState, connects, disconnectedSince, hookCall>>
writeVars == <<writeHook, writeState, writes>>
readVars == <<readHook, readState, readRender, reads, refetches>>
museumVars ==
    <<owner, museumManager, totalExhibitions, totalRegisteredVisitors, exhibitions,
      visitorProfiles, visitRecords, exhibitionVisitors, typeVisitorCounts,
      dailyVisitorCounts, ageGroupCounts, lastTx>>
vars == <<encoderVars, adapterVars, sessionVars, createVars, retryVars, hookVars, writeVars,
          readVars, museumVars>>

exceptEncoder ==
    <<adapterVars, sessionVars, createVars, retryVars, hookVars, writeVars,
      readVars, museumVars>>
exceptAdapter ==
    <<encoderVars, sessionVars, createVars, retryVars, hookVars, writeVars,
      readVars, museumVars>>
exceptCreate ==
    <<encoderVars, adapterVars, sessionVars, retryVars, hookVars, writeVars,
      readVars, museumVars>>
exceptRetry ==
    <<encoderVars, adapterVars, sessionVars, createVars, hookVars, writeVars,
      readVars, museumVars>>
exceptHook ==
    <<encoderVars, adapterVars, sessionVars, createVars, retryVars, writeVars,
      readVars, museumVars>>
exceptWrite ==
    <<encoderVars, adapterVars, sessionVars, createVars, retryVars, hookVars,
      readVars, museumVars>>
exceptRead ==
    <<encoderVars, adapterVars, sessionVars, createVars, retryVars, hookVars, writeVars,
      museumVars>>
exceptMuseum ==
    <<encoderVars, adapterVars, sessionVars, createVars, retryVars, hookVars, writeVars,
      readVars>>

----------------------------------------------------------------------------
(* Bigints *)

Big(neg, mag) == [kind |-> "int", neg |-> neg, mag |-> mag]

Nat1(n) == Big(FALSE, IF n = 0 THEN <<>> ELSE <<n>>)

RECURSIVE Zeros(_)
Zeros(n) == IF n = 0 THEN <<>> ELSE <<0>> \o Zeros(n - 1)

RECURSIVE Ones(_)
Ones(n) == IF n = 0 THEN <<>> ELSE <<65535>> \o Ones(n - 1)

\* 2^bits and 2^bits - 1, bits a multiple of 16
Pow2(bits) == Big(FALSE, <<1>> \o Zeros(bits \div 16))
Pow2Minus1(bits) == Big(FALSE, Ones(bits \div 16))

MagLess(a, b) ==
    \/ Len(a) < Len(b)
    \/ /\ Len(a) = Len(b)
       /\ \E i \in 1..Len(a) :
            /\ a[i] < b[i]
            /\ \A j \in 1..(i - 1) : a[j] = b[j]

\* x < y on bigints
BigLess(x, y) ==
    IF x.neg /\ ~y.neg THEN TRUE
    ELSE IF ~x.neg /\ y.neg THEN FALSE
    ELSE IF x.neg THEN MagLess(y.mag, x.mag)
    ELSE MagLess(x.mag, y.mag)

BigGreater(x, y) == BigLess(y, x)

Zero == Big(FALSE, <<>>)

\* A value that is no integer (the number 1.5, the string "abc"): BigInt() throws on it.
NonInteger == [kind |-> "nonint"]

\* a nonnegative number below 65536 as width bits, most significant first
RECURSIVE BitsOfNat(_, _)
BitsOfNat(n, width) ==
    IF width = 0 THEN <<>> ELSE BitsOfNat(n \div 2, width - 1) \o <<n % 2>>

RECURSIVE NatOfBits(_, _)
NatOfBits(bits, acc) ==
    IF bits = <<>> THEN acc ELSE NatOfBits(Tail(bits), 2 * acc + Head(bits))

RECURSIVE BitsOfMag(_)
BitsOfMag(mag) ==
    IF mag = <<>> THEN <<>> ELSE BitsOfNat(Head(mag), 16) \o BitsOfMag(Tail(mag))

RECURSIVE StripZeros(_)
StripZeros(seq) ==
    IF seq # <<>> /\ Head(seq) = 0 THEN StripZeros(Tail(seq)) ELSE seq

\* the limbs of a bit sequence whose length is a multiple of 16
RECURSIVE LimbsOfBits(_)
LimbsOfBits(bits) ==
    IF bits = <<>> THEN <<>>
    ELSE <<NatOfBits(SubSeq(bits, 1, 16), 0)>> \o LimbsOfBits(SubSeq(bits, 17, Len(bits)))

MagOfBits(bits) ==
    StripZeros(LimbsOfBits(Zeros((16 - (Len(bits) % 16)) % 16) \o bits))

\* bits + 1 (one bit longer when every bit is 1)
RECURSIVE Increment(_)
Increment(bits) ==
    IF bits = <<>> THEN <<1>>
    ELSE IF bits[Len(bits)] = 0 THEN SubSeq(bits, 1, Len(bits) - 1) \o <<1>>
    ELSE Increment(SubSeq(bits, 1, Len(bits) - 1)) \o <<0>>

\* a double holds 53 significant bits: round to nearest, ties to even
RoundTo53(bits) ==
    IF Len(bits) <= 53 THEN bits
    ELSE LET kept == SubSeq(bits, 1, 53)
             up == /\ bits[54] = 1
                   /\ \/ kept[53] = 1
                      \/ \E i \in 55..Len(bits) : bits[i] = 1
         IN  (IF up THEN Increment(kept) ELSE kept) \o Zeros(Len(bits) - 53)

\* Number(bigint): the nearest double (below 2^1024, which every value here is)
Number(v) ==
    [kind |-> "number", neg |-> v.neg,
     mag |-> MagOfBits(RoundTo53(StripZeros(BitsOfMag(v.mag))))]

----------------------------------------------------------------------------
(* Results and errors *)

NotRun == [kind |-> "notrun"]
Returned(v) == [kind |-> "ok", value |-> v]
Thrown(e) == [kind |-> "throw", error |-> e]

\* new Error(message): message is the sequence of the template's parts
Error(message) == [isError |-> TRUE, message |-> message]

----------------------------------------------------------------------------
(* Value encoder: toBigInt *)

EncTypes == {"uint8", "uint16", "uint32", "uint64", "uint128", "uint256"}

\* a string value: its characters
Str(chars) == [kind |-> "str", chars |-> chars]

DigitValue ==
    [c \in {"0", "1", "2", "3", "4", "5", "6", "7", "8", "9"} |->
        CASE c = "0" -> 0 [] c = "1" -> 1 [] c = "2" -> 2 [] c = "3" -> 3 [] c = "4" -> 4
          [] c = "5" -> 5 [] c = "6" -> 6 [] c = "7" -> 7 [] c = "8" -> 8 [] c = "9" -> 9]

RECURSIVE ParseDecimal(_, _)
ParseDecimal(chars, acc) ==
    IF chars = <<>> THEN acc
    ELSE ParseDecimal(Tail(chars), 10 * acc + DigitValue[Head(chars)])

\* the bigint of a number below 2^31
BigOfNat(neg, n) ==
    IF n = 0 THEN Zero
    ELSE IF n < 65536 THEN Big(neg, <<n>>)
    ELSE Big(neg, <<n \div 65536, n % 65536>>)

BigIntError == Error(<<"cannot be converted to a BigInt">>)

\* BigInt(string): the empty string is 0n; an optional sign and decimal digits are
\* that integer; any other string throws. (The strings drawn here hold no white
\* space and no radix prefix, and at most nine digits.)
BigIntOfString(chars) ==
    LET signed == chars # <<>> /\ Head(chars) \in {"-", "+"}
        body == IF signed THEN Tail(chars) ELSE chars
    IN  IF chars = <<>> THEN Returned(Zero)
        ELSE IF body = <<>> \/ \E i \in 1..Len(body) : body[i] \notin DOMAIN DigitValue
        THEN Thrown(BigIntError)
        ELSE Returned(BigOfNat(Head(chars) = "-", ParseDecimal(body, 0)))

\* BigInt(value): the integer itself for a bigint or an integer number, the integer
\* a string spells, a throw for a number that is no integer
BigInt(value) ==
    CASE value.kind = "int" -> Returned(value)
      [] value.kind = "str" -> BigIntOfString(value.chars)
      [] OTHER -> Thrown(BigIntError)

BigIntThrows(value) == BigInt(value).kind = "throw"

\* the literals of the switch
U8Max == Big(FALSE, <<255>>)
U16Max == Big(FALSE, <<65535>>)
U32Max == Big(FALSE, <<65535, 65535>>)
U64Max == Big(FALSE, <<65535, 65535, 65535, 65535>>)

OutOfRange(bigValue, max) == BigLess(bigValue, Zero) \/ BigGreater(bigValue, max)

RangeMessage(bigValue, type) ==
    CASE type = "uint8" -> <<"Value ", bigValue, " out of range for uint8 (0-255)">>
      [] type = "uint16" -> <<"Value ", bigValue, " out of range for uint16 (0-65535)">>
      [] type = "uint32" -> <<"Value ", bigValue, " out of range for uint32 (0-4294967295)">>
      [] OTHER -> <<"Value ", bigValue, " out of range for uint64">>

toBigInt(value, type) ==
    IF BigIntThrows(value) THEN Thrown(BigIntError)
    ELSE LET bigValue == BigInt(value).value IN
         CASE type = "uint8" /\ OutOfRange(bigValue, U8Max) ->
                  Thrown(Error(RangeMessage(bigValue, type)))
           [] type = "uint16" /\ OutOfRange(bigValue, U16Max) ->
                  Thrown(Error(RangeMessage(bigValue, type)))
           [] type = "uint32" /\ OutOfRange(bigValue, U32Max) ->
                  Thrown(Error(RangeMessage(bigValue, type)))
           [] type = "uint64" /\ OutOfRange(bigValue, U64Max) ->
                  Thrown(Error(RangeMessage(bigValue, type)))
           [] OTHER -> Returned(bigValue)

\* the inputs the encoder is applied to: the edges of every width
EncoderValues ==
    { Big(TRUE, <<1>>), Zero, Nat1(25), Nat1(255), Nat1(256), Nat1(300),
      Nat1(65535), Pow2(16), Pow2Minus1(32), Pow2(32), Pow2Minus1(64), Pow2(64),
      Pow2Minus1(128), Pow2(128), Pow2Minus1(256), Pow2(256),
      Big(TRUE, <<1, 0, 0, 0, 0>>), NonInteger }

ToBigInt ==
    /\ encRet = NotRun
    /\ encRet' = toBigInt(encArg.value, encArg.type)
    /\ UNCHANGED <<encArg, validRet>>
    /\ UNCHANGED exceptEncoder

\* isValidValue without its catch
isValidValueRethrowing(value, type) ==
    IF toBigInt(value, type).kind = "throw" THEN toBigInt(value, type)
    ELSE Returned(TRUE)

\* try { toBigInt(value, type); return true; } catch { return false; }
isValidValue(value, type) ==
    IF toBigInt(value, type).kind = "throw" THEN Returned(FALSE)
    ELSE Returned(TRUE)

IsValidValue ==
    /\ validRet = NotRun
    /\ validRet' = isValidValue(encArg.value, encArg.type)
    /\ UNCHANGED <<encArg, encRet>>
    /\ UNCHANGED exceptEncoder

----------------------------------------------------------------------------
(* Client session *)

NULL == [kind |-> "null"]
Undefined == "undefined"

FHEVMClient(signer, instance, isInitialized) ==
    [kind |-> "client", contract |-> "0xC", provider |-> "provider",
     signer |-> signer, instance |-> instance, isInitialized |-> isInitialized]

isClientInitialized(c) ==
    c.kind # "null" /\ c.isInitialized /\ c.instance # Undefined

NotInitializedError == Error(<<"FHEVM client is not initialized">>)

\* getInstance without the isInitialized flag
getInstanceIgnoringFlag(c) ==
    IF c.kind = "null" \/ c.instance = Undefined THEN Thrown(NotInitializedError)
    ELSE Returned(c.instance)

\* getInstance(client): the instance, or the throw
getInstance(c) ==
    IF ~isClientInitialized(c) THEN Thrown(NotInitializedError)
    ELSE Returned(c.instance)

\* a teardown that also drops the instance
disconnectClientDroppingInstance(c) ==
    [c EXCEPT !.isInitialized = FALSE, !.instance = Undefined]

\* client.isInitialized = false
disconnectClient(c) == [c EXCEPT !.isInitialized = FALSE]

\* client.signer?.address
SignerAddress(c) == c.signer

\* The clients a caller can hold: none, one createFHEVMClient returned (with or
\* without a signer), and objects of the FHEVMClient type that were never initialized
\* (the flag never set, or no instance).
InitialClients ==
    { NULL,
      FHEVMClient("0xA", "instance", TRUE),
      FHEVMClient(Undefined, "instance", TRUE),
      FHEVMClient("0xB", "instance", FALSE),
      FHEVMClient("0xA", Undefined, TRUE) }

\* the TypeError of a property read on undefined or null
TypeError(what) == Error(<<"TypeError: cannot read properties of undefined", what>>)

\* an error thrown by a library this code calls (ethers, fhevm-js)
LibraryError(where) == Error(<<"library error", where>>)

NoCall == [op |-> "none", arg |-> <<>>, pc |-> "idle", instance |-> Undefined]

\* One adapter call is followed from its invocation to its settlement; the calls of
\* a caller share nothing but the client, whose only change is disconnectClient.
CanStart == call.pc = "idle"

\* a call that getInstance stopped: its promise is rejected, nothing else happened
Rejected(op, arg, error) ==
    /\ call' = [op |-> op, arg |-> arg, pc |-> "done", instance |-> Undefined]
    /\ result' = Thrown(error)
    /\ subs' = <<>>
    /\ instLog' = <<>>
    /\ answers' = <<>>
    /\ completed' = <<>>

----------------------------------------------------------------------------
(* Encryption adapter *)

MaxBatch == 2

\* 25 at every width and at a type the switch does not know; 300, which is out of
\* range at uint8; a value that is no integer
EncInputTypes == EncTypes \cup {"int8"}
EncryptionInputs ==
    [value : {Nat1(25)}, type : EncInputTypes]
    \cup [value : {Nat1(300)}, type : {"uint8", "uint32"}]
    \cup [value : {NonInteger}, type : {"uint8"}]
EncryptionBatches == UNION {[1..n -> EncryptionInputs] : n \in 0..MaxBatch}

UnsupportedError(type) == Error(<<"Unsupported encryption type: ", type>>)

AddMethod(type) ==
    CASE type = "uint8" -> "add8"
      [] type = "uint16" -> "add16"
      [] type = "uint32" -> "add32"
      [] type = "uint64" -> "add64"
      [] type = "uint128" -> "add128"
      [] type = "uint256" -> "add256"

\* what the builder holds after addN(value): the width of N and the value
Added(method, value) ==
    [bits |-> CASE method = "add8" -> 8 [] method = "add16" -> 16
                [] method = "add32" -> 32 [] method = "add64" -> 64
                [] method = "add128" -> 128 [] method = "add256" -> 256,
     value |-> value]

\* The switch on input.type for one input. st is the builder so far, the calls made
\* on the instance so far and what was thrown; libThrows: the library's add throws.
AddByType(st, input, libThrows) ==
    IF input.type \notin EncTypes
    THEN [st EXCEPT !.thrown = Thrown(UnsupportedError(input.type))]
    ELSE IF BigIntThrows(input.value)
    THEN [st EXCEPT !.thrown = Thrown(BigIntError)]
    ELSE LET method == AddMethod(input.type)
             bigValue == BigInt(input.value).value
             made == Append(st.log, [method |-> method, value |-> bigValue])
         IN  IF libThrows
             THEN [st EXCEPT !.log = made, !.thrown = Thrown(LibraryError(method))]
             ELSE [st EXCEPT !.log = made,
                             !.builder = Append(@, Added(method, bigValue))]

\* the loop adding to a builder kept from the call before, not to one of its own
RECURSIVE AddAllOnKeptBuilder(_, _, _, _)
AddAllOnKeptBuilder(st, inputs, i, failAdd) ==
    IF i > Len(inputs) \/ st.thrown.kind # "notrun" THEN st
    ELSE LET kept == IF i = 1 /\ builders # <<>>
                     THEN [st EXCEPT !.builder = builders[Len(builders)].added]
                     ELSE st
         IN  AddAllOnKeptBuilder(AddByType(kept, inputs[i], failAdd = i),
                                 inputs, i + 1, failAdd)

\* the loop taking the inputs last to first
RECURSIVE AddAllReversed(_, _, _, _)
AddAllReversed(st, inputs, i, failAdd) ==
    IF i > Len(inputs) \/ st.thrown.kind # "notrun" THEN st
    ELSE AddAllReversed(AddByType(st, inputs[Len(inputs) + 1 - i], failAdd = i),
                        inputs, i + 1, failAdd)

\* for (const input of inputs) { switch ... }: from input i on, until a throw
RECURSIVE AddAll(_, _, _, _)
AddAll(st, inputs, i, failAdd) ==
    IF i > Len(inputs) \/ st.thrown.kind # "notrun" THEN st
    ELSE AddAll(AddByType(st, inputs[i], failAdd = i), inputs, i + 1, failAdd)

\* the ciphertext handle the library returns for one added value
Handle(added) == [ciphertextOf |-> added]

\* an encrypt() whose proof covers the last added value only
EncryptLastOnly(builder, contractAddress, userAddress) ==
    [handles |-> [i \in 1..Len(builder) |-> Handle(builder[i])],
     inputProof |-> [proves |-> IF builder = <<>> THEN <<>> ELSE <<builder[Len(builder)]>>,
                     contractAddress |-> contractAddress,
                     userAddress |-> userAddress]]

\* encryptedInput.encrypt(): one handle per added value, in the builder's order,
\* and the proof for exactly these
Encrypt(builder, contractAddress, userAddress) ==
    [handles |-> [i \in 1..Len(builder) |-> Handle(builder[i])],
     inputProof |-> [proves |-> builder, contractAddress |-> contractAddress,
                     userAddress |-> userAddress]]

\* The external calls of an encryption, numbered: 1 getAddress, 2 createEncryptedInput,
\* 2 + i the add of input i, n + 3 encrypt. failAt names the one that throws (0: none).
FailPoints(inputs) == 0..(Len(inputs) + 3)

\* encryptValue / encryptBatch from the resumption after getAddress to the return
EncryptBody(c, inputs, failAt) ==
    LET created == [method |-> "createEncryptedInput", contractAddress |-> c.contract,
                    userAddress |-> SignerAddress(c)]
        st0 == [builder |-> <<>>, log |-> <<created>>, thrown |-> NotRun]
        st == AddAll(st0, inputs, 1, failAt - 2)
        encrypt == [method |-> "encrypt"]
    IN  IF failAt = 1
        THEN [log |-> <<>>, builder |-> <<>>,
              result |-> Thrown(LibraryError("getAddress"))]
        ELSE IF failAt = 2
        THEN [log |-> <<created>>, builder |-> <<>>,
              result |-> Thrown(LibraryError("createEncryptedInput"))]
        ELSE IF st.thrown.kind # "notrun"
        THEN [log |-> st.log, builder |-> st.builder, result |-> st.thrown]
        ELSE IF failAt = Len(inputs) + 3
        THEN [log |-> Append(st.log, encrypt), builder |-> st.builder,
              result |-> Thrown(LibraryError("encrypt"))]
        ELSE [log |-> Append(st.log, encrypt), builder |-> st.builder,
              result |-> Returned(Encrypt(st.builder, c.contract, SignerAddress(c)))]

\* encryptValue(client, input) up to its first await
EncryptValue(input) ==
    /\ CanStart
    /\ UNCHANGED client
    /\ UNCHANGED exceptAdapter
    /\ IF getInstance(client).kind = "throw"
       THEN Rejected("encryptValue", <<input>>, getInstance(client).error)
       ELSE /\ call' = [op |-> "encryptValue", arg |-> <<input>>, pc |-> "getAddress",
                        instance |-> getInstance(client).value]
            /\ result' = NotRun
            /\ subs' = <<>>
            /\ instLog' = <<>>
            /\ answers' = <<>>
            /\ completed' = <<>>

\* encryptBatch(client, inputs) up to its first await
EncryptBatch(inputs) ==
    /\ CanStart
    /\ UNCHANGED client
    /\ UNCHANGED exceptAdapter
    /\ IF getInstance(client).kind = "throw"
       THEN Rejected("encryptBatch", inputs, getInstance(client).error)
       ELSE /\ call' = [op |-> "encryptBatch", arg |-> inputs, pc |-> "getAddress",
                        instance |-> getInstance(client).value]
            /\ result' = NotRun
            /\ subs' = <<>>
            /\ instLog' = <<>>
            /\ answers' = <<>>
            /\ completed' = <<>>

\* getAddress settles and the rest of encryptValue / encryptBatch runs to its return
EncryptResume(failAt) ==
    /\ call.pc = "getAddress"
    /\ failAt \in FailPoints(call.arg)
    /\ LET body == EncryptBody(client, call.arg, failAt)
       IN  /\ result' = body.result
           /\ instLog' = body.log
    /\ call' = [call EXCEPT !.pc = "done"]
    /\ UNCHANGED <<client, subs, answers, completed>>
    /\ UNCHANGED exceptAdapter

----------------------------------------------------------------------------
(* Decryption adapter *)

MaxRequests == 2

DecHandles ==
    { Handle([bits |-> 8, value |-> Nat1(25)]),
      Handle([bits |-> 32, value |-> Nat1(300)]) }
DecryptionRequests ==
    [contractAddress : {"0xC"}, handle : DecHandles, userAddress : {"0xA", "0xB"}]
\* the requests of a batch name one user: decryptBatch never reads userAddress
RequestBatches ==
    UNION {[1..n -> {r \in DecryptionRequests : r.userAddress = "0xA"}] :
              n \in 0..MaxRequests}

\* What the gateway can answer to instance.decrypt(contractAddress, handle): the
\* plaintext, a value that is no integer, or a throw (of an Error or of another value).
GatewayThrows ==
    { Error(<<"Unauthorized">>), [isError |-> FALSE, message |-> <<"timeout">>] }
GatewayOutcomes(handle) ==
    { [kind |-> "plain", value |-> handle.ciphertextOf.value],
      [kind |-> "plain", value |-> [kind |-> "undefined"]] }
    \cup { [kind |-> "throw", error |-> e] : e \in GatewayThrows }

\* error instanceof Error ? error.message : 'Unknown error'
MessageOf(error) == IF error.isError THEN error.message ELSE <<"Unknown error">>

DecryptionFailed(error) == Error(<<"Decryption failed: ", MessageOf(error)>>)

\* decryptValue answering a failure with a default value
decryptValueDefaulting(outcome) ==
    IF outcome.kind = "throw" \/ BigIntThrows(outcome.value)
    THEN Returned([value |-> Zero, decrypted |-> FALSE])
    ELSE Returned([value |-> BigInt(outcome.value).value, decrypted |-> TRUE])

\* a bigint read through a double: the bits below the leading 48 are lost
ThroughNumber(v) ==
    IF Len(v.mag) <= 3 THEN v
    ELSE Big(v.neg, SubSeq(v.mag, 1, 3) \o Zeros(Len(v.mag) - 3))

\* decryptValue converting the plaintext through a number
decryptValueViaNumber(outcome) ==
    IF outcome.kind = "throw" THEN Thrown(DecryptionFailed(outcome.error))
    ELSE IF BigIntThrows(outcome.value) THEN Thrown(DecryptionFailed(BigIntError))
    ELSE Returned([value |-> ThroughNumber(BigInt(outcome.value).value),
                   decrypted |-> TRUE])

\* decryptValue from the settlement of instance.decrypt to its return or throw
decryptValueSettle(outcome) ==
    IF outcome.kind = "throw" THEN Thrown(DecryptionFailed(outcome.error))
    ELSE IF BigIntThrows(outcome.value) THEN Thrown(DecryptionFailed(BigIntError))
    ELSE Returned([value |-> BigInt(outcome.value).value, decrypted |-> TRUE])

DecryptCall(request) ==
    [method |-> "decrypt", contractAddress |-> request.contractAddress,
     handle |-> request.handle]

\* decryptValue(client, request) up to its await: the promise it returns
decryptValueStart(c) ==
    IF getInstance(c).kind = "throw" THEN getInstance(c) ELSE NotRun

\* Promise.allSettled in the place of Promise.all: every settlement, once all settled
PromiseAllSettled(prev, promises, k) ==
    IF \A n \in 1..Len(promises) : promises[n].kind # "notrun"
    THEN Returned([n \in 1..Len(promises) |->
                      IF promises[n].kind = "ok" THEN promises[n].value ELSE promises[n]])
    ELSE NotRun

\* a Promise.all that collects the values in the order of their arrival
PromiseAllInCompletionOrder(prev, promises, k) ==
    IF prev.kind # "notrun" THEN prev
    ELSE IF k # 0 /\ promises[k].kind = "throw" THEN promises[k]
    ELSE IF \E i \in 1..Len(promises) : promises[i].kind = "throw"
    THEN promises[CHOOSE i \in 1..Len(promises) : promises[i].kind = "throw"]
    ELSE IF \A i \in 1..Len(promises) : promises[i].kind = "ok"
    THEN LET order == IF k = 0 THEN <<>> ELSE Append(completed, k)
         IN  Returned([i \in 1..Len(promises) |-> promises[order[i]].value])
    ELSE NotRun

\* Promise.all(promises) after promise k settled (k = 0: at its creation): rejected
\* with the first rejection, fulfilled with all values in index order, or pending.
PromiseAll(prev, promises, k) ==
    IF prev.kind # "notrun" THEN prev
    ELSE IF k # 0 /\ promises[k].kind = "throw" THEN promises[k]
    ELSE IF \E i \in 1..Len(promises) : promises[i].kind = "throw"
    THEN promises[CHOOSE i \in 1..Len(promises) :
                      /\ promises[i].kind = "throw"
                      /\ \A j \in 1..(i - 1) : promises[j].kind # "throw"]
    ELSE IF \A i \in 1..Len(promises) : promises[i].kind = "ok"
    THEN Returned([i \in 1..Len(promises) |-> promises[i].value])
    ELSE NotRun

\* the pending calls given up at the first rejection
AllSettledOrOneRejected(promises) ==
    \/ \A i \in 1..Len(promises) : promises[i].kind # "notrun"
    \/ \E i \in 1..Len(promises) : promises[i].kind = "throw"

\* no decryptValue of the call is still waiting for the gateway
AllSettled(promises) == \A i \in 1..Len(promises) : promises[i].kind # "notrun"

\* canDecrypt letting the failure through
canDecryptRethrowing(promise) ==
    IF promise.kind = "throw" THEN promise ELSE Returned(TRUE)

\* try { await decryptValue(...); return true; } catch { return false; }
canDecryptSettle(promise) ==
    IF promise.kind = "throw" THEN Returned(FALSE) ELSE Returned(TRUE)

\* decryptUint8 / decryptUint32 after their await: return Number(result.value)
decryptUintSettle(promise) ==
    IF promise.kind = "throw" THEN promise
    ELSE Returned(Number(promise.value.value))

\* decryptValue(client, request) up to its await
DecryptValue(request) ==
    /\ CanStart
    /\ UNCHANGED client
    /\ UNCHANGED exceptAdapter
    /\ IF getInstance(client).kind = "throw"
       THEN Rejected("decryptValue", <<request>>, getInstance(client).error)
       ELSE /\ call' = [op |-> "decryptValue", arg |-> <<request>>, pc |-> "gateway",
                        instance |-> getInstance(client).value]
            /\ result' = NotRun
            /\ subs' = <<NotRun>>
            /\ instLog' = <<DecryptCall(request)>>
            /\ answers' = <<NotRun>>
            /\ completed' = <<>>

\* decryptBatch(client, requests): requests.map(decryptValue), then Promise.all
DecryptBatch(requests) ==
    /\ CanStart
    /\ UNCHANGED client
    /\ UNCHANGED exceptAdapter
    /\ LET promises == [i \in 1..Len(requests) |-> decryptValueStart(client)]
       IN  /\ subs' = promises
           /\ result' = PromiseAll(NotRun, promises, 0)
           /\ call' = [op |-> "decryptBatch", arg |-> requests,
                       pc |-> IF AllSettled(promises) THEN "done" ELSE "gateway",
                       instance |-> IF isClientInitialized(client)
                                    THEN client.instance ELSE Undefined]
           /\ instLog' = IF isClientInitialized(client)
                         THEN [i \in 1..Len(requests) |-> DecryptCall(requests[i])]
                         ELSE <<>>
           /\ answers' = IF isClientInitialized(client)
                         THEN [i \in 1..Len(requests) |-> NotRun]
                         ELSE <<>>
           /\ completed' = <<>>

\* the gateway answers the decrypt call of request k; decryptValue k returns or
\* throws, and with it the call's own promise settles where it depends on it
GatewayRespond(k, outcome) ==
    /\ call.pc = "gateway"
    /\ call.op \in {"decryptValue", "decryptBatch", "canDecrypt",
                   "decryptUint8", "decryptUint32"}
    /\ k \in 1..Len(subs)
    /\ subs[k].kind = "notrun"
    /\ outcome \in GatewayOutcomes(call.arg[k].handle)
    /\ LET settled == [subs EXCEPT ![k] = decryptValueSettle(outcome)]
       IN  /\ subs' = settled
           /\ answers' = [answers EXCEPT ![k] = outcome]
           /\ completed' = Append(completed, k)
           /\ result' = IF call.op = "decryptValue" THEN settled[1]
                        ELSE IF call.op = "canDecrypt" THEN canDecryptSettle(settled[1])
                        ELSE IF call.op \in {"decryptUint8", "decryptUint32"}
                        THEN decryptUintSettle(settled[1])
                        ELSE PromiseAll(result, settled, k)
           /\ call' = [call EXCEPT !.pc = IF AllSettled(settled) THEN "done" ELSE "gateway"]
    /\ UNCHANGED <<client, instLog>>
    /\ UNCHANGED exceptAdapter

ReencryptArgs == [handle : DecHandles, publicKey : {"pk"}]
ReencryptOutcomes ==
    { [kind |-> "plain", value |-> "reencrypted"] }
    \cup { [kind |-> "throw", error |-> e] : e \in GatewayThrows }

ReencryptionFailed(error) == Error(<<"Re-encryption failed: ", MessageOf(error)>>)

\* client.signer?.address || ''
RequesterAddress(c) == IF SignerAddress(c) = Undefined THEN "" ELSE SignerAddress(c)

\* reencrypt(client, handle, publicKey) up to its await
Reencrypt(arg) ==
    /\ CanStart
    /\ UNCHANGED client
    /\ UNCHANGED exceptAdapter
    /\ IF getInstance(client).kind = "throw"
       THEN Rejected("reencrypt", arg, getInstance(client).error)
       ELSE /\ call' = [op |-> "reencrypt", arg |-> arg, pc |-> "gateway",
                        instance |-> getInstance(client).value]
            /\ result' = NotRun
            /\ subs' = <<NotRun>>
            /\ instLog' = <<[method |-> "reencrypt", handle |-> arg.handle,
                             publicKey |-> arg.publicKey,
                             requester |-> RequesterAddress(client)]>>
            /\ answers' = <<NotRun>>
            /\ completed' = <<>>

\* instance.reencrypt settles and reencrypt returns or throws
ReencryptRespond(outcome) ==
    /\ call.pc = "gateway"
    /\ call.op = "reencrypt"
    /\ result' = IF outcome.kind = "throw" THEN Thrown(ReencryptionFailed(outcome.error))
                 ELSE Returned(outcome.value)
    /\ subs' = <<result'>>
    /\ answers' = <<outcome>>
    /\ completed' = <<1>>
    /\ call' = [call EXCEPT !.pc = "done"]
    /\ UNCHANGED <<client, instLog>>
    /\ UNCHANGED exceptAdapter

CanDecryptArgs == [contractAddress : {"0xC"}, handle : DecHandles]

\* canDecrypt(client, contractAddress, handle) up to its await. Building the request
\* reads client.signer, which throws on a null client, inside the try block.
CanDecrypt(arg) ==
    /\ CanStart
    /\ UNCHANGED client
    /\ UNCHANGED exceptAdapter
    /\ LET request == [contractAddress |-> arg.contractAddress, handle |-> arg.handle,
                       userAddress |-> IF client = NULL THEN Undefined
                                       ELSE RequesterAddress(client)]
           promise == IF client = NULL THEN Thrown(TypeError("signer"))
                      ELSE decryptValueStart(client)
       IN  /\ call' = [op |-> "canDecrypt", arg |-> <<request>>,
                       pc |-> IF promise.kind = "throw" THEN "done" ELSE "gateway",
                       instance |-> IF promise.kind = "throw" THEN Undefined
                                    ELSE client.instance]
           /\ result' = IF promise.kind = "throw" THEN canDecryptSettle(promise)
                        ELSE NotRun
           /\ subs' = IF promise.kind = "throw" THEN <<>> ELSE <<NotRun>>
           /\ instLog' = IF promise.kind = "throw" THEN <<>> ELSE <<DecryptCall(request)>>
           /\ answers' = IF promise.kind = "throw" THEN <<>> ELSE <<NotRun>>
           /\ completed' = <<>>

\* decryptUint8 / decryptUint32 (client, contractAddress, handle) up to their await:
\* the two functions differ in their names only. Building the request reads
\* client.signer, which throws on a null client.
DecryptUint(op, arg) ==
    /\ CanStart
    /\ UNCHANGED client
    /\ UNCHANGED exceptAdapter
    /\ LET request == [contractAddress |-> arg.contractAddress, handle |-> arg.handle,
                       userAddress |-> IF client = NULL THEN Undefined
                                       ELSE RequesterAddress(client)]
           promise == IF client = NULL THEN Thrown(TypeError("signer"))
                      ELSE decryptValueStart(client)
       IN  /\ call' = [op |-> op, arg |-> <<request>>,
                       pc |-> IF promise.kind = "throw" THEN "done" ELSE "gateway",
                       instance |-> IF promise.kind = "throw" THEN Undefined
                                    ELSE client.instance]
           /\ result' = IF promise.kind = "throw" THEN decryptUintSettle(promise)
                        ELSE NotRun
           /\ subs' = IF promise.kind = "throw" THEN <<>> ELSE <<NotRun>>
           /\ instLog' = IF promise.kind = "throw" THEN <<>> ELSE <<DecryptCall(request)>>
           /\ answers' = IF promise.kind = "throw" THEN <<>> ELSE <<NotRun>>
           /\ completed' = <<>>

\* disconnectClient(client), at any moment, also while a call is in flight
DisconnectClient ==
    /\ client.kind # "null"
    /\ client' = disconnectClient(client)
    /\ UNCHANGED <<call, subs, result, instLog, answers, completed>>
    /\ UNCHANGED exceptAdapter

----------------------------------------------------------------------------
(* Encryption calls in flight together on one client *)

MaxCalls == 2

NoEncCall == [op |-> "none", arg |-> <<>>, pc |-> "idle", result |-> NotRun]
NoCalls == [id \in 1..MaxCalls |-> NoEncCall]

exceptSession ==
    <<encoderVars, adapterVars, createVars, retryVars, hookVars, writeVars,
      readVars, museumVars>>

\* a number, a numeric string and the largest 64-bit value
SessionInputs ==
    { [value |-> Nat1(25), type |-> "uint8"],
      [value |-> Str(<<"4", "2">>), type |-> "uint16"],
      [value |-> Pow2Minus1(64), type |-> "uint64"] }

SessionCalls ==
    [op : {"encryptValue"}, arg : {<<input>> : input \in SessionInputs}]
    \cup [op : {"encryptBatch"},
          arg : { <<[value |-> Nat1(25), type |-> "uint8"],
                    [value |-> Str(<<"4", "2">>), type |-> "uint16"]>> }]

\* The clients createFHEVMClient returned
CreatedClients ==
    { FHEVMClient("0xA", "instance", TRUE), FHEVMClient(Undefined, "instance", TRUE) }

\* encryptValue / encryptBatch invoked as call id, up to its await, while the calls
\* invoked before it may still be in flight
SessionEncrypt(id, c) ==
    /\ encCalls[id].pc = "idle"
    /\ \A j \in 1..(id - 1) : encCalls[j].pc # "idle"
    /\ encCalls' = [encCalls EXCEPT ![id] =
                        IF getInstance(client).kind = "throw"
                        THEN [op |-> c.op, arg |-> c.arg, pc |-> "done",
                              result |-> getInstance(client)]
                        ELSE [op |-> c.op, arg |-> c.arg, pc |-> "getAddress",
                              result |-> NotRun]]
    /\ UNCHANGED builders
    /\ UNCHANGED exceptSession

\* getAddress of call id settles: the call creates its builder, adds its inputs,
\* encrypts and returns, in one run with no await in it
SessionResume(id, failAt) ==
    /\ encCalls[id].pc = "getAddress"
    /\ failAt \in FailPoints(encCalls[id].arg)
    /\ LET body == EncryptBody(client, encCalls[id].arg, failAt)
       IN  /\ encCalls' = [encCalls EXCEPT ![id].pc = "done", ![id].result = body.result]
           /\ builders' = IF failAt \in {1, 2} THEN builders
                          ELSE Append(builders, [by |-> id, added |-> body.builder])
    /\ UNCHANGED exceptSession

\* decryptValue on the k-th handle that call id returned
SessionDecrypt(id, k) ==
    /\ encCalls[id].result.kind = "ok"
    /\ k \in 1..Len(encCalls[id].result.value.handles)
    /\ DecryptValue([contractAddress |-> "0xC",
                     handle |-> encCalls[id].result.value.handles[k],
                     userAddress |-> "0xA"])

\* the gateway answers the decrypt call
SessionGatewayRespond ==
    /\ call.pc = "gateway"
    /\ \E outcome \in GatewayOutcomes(call.arg[1].handle) : GatewayRespond(1, outcome)

----------------------------------------------------------------------------
(* Client session: createFHEVMClient *)

\* A config says which of its fields hold a (truthy) value.
Configs ==
    [provider : BOOLEAN, signer : BOOLEAN, contractAddress : BOOLEAN,
     contractABI : BOOLEAN, gatewayUrl : BOOLEAN]

\* a failure answered with a client that is not initialized
CreateThrowReturningClient(log, error) ==
    /\ createPc' = "done"
    /\ createLog' = log
    /\ createRet' = Returned(FHEVMClient(Undefined, Undefined, FALSE))

\* createFHEVMClient rejecting: nothing catches what the libraries throw
CreateThrow(log, error) ==
    /\ createPc' = "done"
    /\ createLog' = log
    /\ createRet' = Thrown(error)

\* the client createFHEVMClient returns
CreatedClient(cfg) ==
    [FHEVMClient(IF cfg.signer THEN "0xA" ELSE Undefined, "instance", TRUE)
        EXCEPT !.contract = IF cfg.contractAddress THEN "0xC" ELSE Undefined]

\* createFHEVMClient(config) up to its first await: new Contract(...), which is the
\* library's and may throw, then provider.getNetwork()
CreateStart(contractThrows) ==
    /\ createPc = "idle"
    /\ IF contractThrows
       THEN CreateThrow(<<"new Contract">>, LibraryError("Contract"))
       ELSE IF ~config.provider
       THEN CreateThrow(<<"new Contract">>, TypeError("getNetwork"))
       ELSE /\ createPc' = "getNetwork"
            /\ createLog' = <<"new Contract", "getNetwork">>
            /\ createRet' = NotRun
    /\ UNCHANGED config
    /\ UNCHANGED exceptCreate

\* getNetwork settles; then gatewayUrl || (await provider._getConnection()).url
GetNetworkSettle(ok) ==
    /\ createPc = "getNetwork"
    /\ IF ~ok THEN CreateThrow(createLog, LibraryError("getNetwork"))
       ELSE IF config.gatewayUrl
       THEN /\ createPc' = "createInstance"
            /\ createLog' = Append(createLog, "createInstance")
            /\ createRet' = NotRun
       ELSE /\ createPc' = "getConnection"
            /\ createLog' = Append(createLog, "_getConnection")
            /\ createRet' = NotRun
    /\ UNCHANGED config
    /\ UNCHANGED exceptCreate

\* _getConnection settles; then createInstance({...})
GetConnectionSettle(ok) ==
    /\ createPc = "getConnection"
    /\ IF ~ok THEN CreateThrow(createLog, LibraryError("_getConnection"))
       ELSE /\ createPc' = "createInstance"
            /\ createLog' = Append(createLog, "createInstance")
            /\ createRet' = NotRun
    /\ UNCHANGED config
    /\ UNCHANGED exceptCreate

\* createInstance settles; then the return of the client
CreateInstanceSettle(ok) ==
    /\ createPc = "createInstance"
    /\ IF ~ok THEN CreateThrow(createLog, LibraryError("createInstance"))
       ELSE /\ createPc' = "done"
            /\ createLog' = createLog
            /\ createRet' = Returned(CreatedClient(config))
    /\ UNCHANGED config
    /\ UNCHANGED exceptCreate

----------------------------------------------------------------------------
(* Helpers: retry *)

MaxAttempts == 4

RetryArgs == [maxRetries : 0..MaxAttempts, baseDelay : {100, 1000}]

\* what one invocation of fn can do: return a value, throw an Error, throw another value
FnThrows == { Error(<<"gateway down">>), Error(<<"denied">>),
              [isError |-> FALSE, message |-> <<"timeout">>] }
FnOutcomes ==
    { [kind |-> "ok", value |-> v] : v \in {"v1", "v2"} }
    \cup { [kind |-> "throw", error |-> e] : e \in FnThrows }

\* Math.pow(2, n)
RECURSIVE MathPow2(_)
MathPow2(n) == IF n = 0 THEN 1 ELSE 2 * MathPow2(n - 1)

\* a linear backoff
RetryDelayLinear(baseDelay, n) == baseDelay * (n + 1)

RetryDelay(baseDelay, n) == baseDelay * MathPow2(n)

\* every caught value replaced by a new Error
AsErrorWrapping(error) == Error(<<"Unknown error">>)

\* error instanceof Error ? error : new Error('Unknown error')
AsError(error) == IF error.isError THEN error ELSE Error(<<"Unknown error">>)

\* the loop running while i <= maxRetries
LoopHeadOffByOne(n, last, settled) ==
    IF n <= retryArgs.maxRetries
    THEN /\ retryPc' = "fn"
         /\ running' = settled + 1
         /\ retryRet' = NotRun
    ELSE /\ retryPc' = "done"
         /\ running' = settled
         /\ retryRet' = Thrown(IF last.kind = "null" THEN Error(<<"Retry failed">>)
                               ELSE last.error)

\* The head of the for loop with index n: the next invocation of fn, or the final
\* throw. settled: the invocations still running when the head is reached.
LoopHead(n, last, settled) ==
    IF n < retryArgs.maxRetries
    THEN /\ retryPc' = "fn"
         /\ running' = settled + 1
         /\ retryRet' = NotRun
    ELSE /\ retryPc' = "done"
         /\ running' = settled
         /\ retryRet' = Thrown(IF last.kind = "null" THEN Error(<<"Retry failed">>)
                               ELSE last.error)

\* retry(fn, maxRetries, baseDelay) up to its first await
RetryStart ==
    /\ retryPc = "idle"
    /\ loopI' = 0
    /\ lastError' = [kind |-> "null"]
    /\ LoopHead(0, [kind |-> "null"], running)
    /\ UNCHANGED <<retryArgs, attempts, delays>>
    /\ UNCHANGED exceptRetry

\* fn settles: the return of its value, or the catch block and what follows it
FnSettle(outcome) ==
    /\ retryPc = "fn"
    /\ attempts' = Append(attempts, outcome)
    /\ IF outcome.kind = "ok"
       THEN /\ retryPc' = "done"
            /\ running' = running - 1
            /\ retryRet' = Returned(outcome.value)
            /\ UNCHANGED <<loopI, lastError, delays>>
       ELSE LET caught == [kind |-> "error", error |-> AsError(outcome.error)]
            IN  /\ lastError' = caught
                /\ IF loopI < retryArgs.maxRetries - 1
                   THEN /\ delays' = Append(delays, RetryDelay(retryArgs.baseDelay, loopI))
                        /\ retryPc' = "sleep"
                        /\ running' = running - 1
                        /\ retryRet' = NotRun
                        /\ loopI' = loopI
                   ELSE /\ delays' = delays
                        /\ loopI' = loopI + 1
                        /\ LoopHead(loopI + 1, caught, running - 1)
    /\ UNCHANGED retryArgs
    /\ UNCHANGED exceptRetry

\* the timer fires: loopI++ and the head of the loop
TimerFires ==
    /\ retryPc = "sleep"
    /\ loopI' = loopI + 1
    /\ LoopHead(loopI + 1, lastError, running)
    /\ UNCHANGED <<retryArgs, lastError, attempts, delays>>
    /\ UNCHANGED exceptRetry

----------------------------------------------------------------------------
(* React hooks: useFHEVM *)

MaxConnects == 2

\* A config as the hook sees it: whether the argument was passed at all, and which
\* of its fields hold a (truthy) value.
HookConfig(given, provider, signer, contractAddress, contractABI) ==
    [given |-> given, provider |-> provider, signer |-> signer,
     contractAddress |-> contractAddress, contractABI |-> contractABI,
     gatewayUrl |-> FALSE]

NoConfig == HookConfig(FALSE, FALSE, FALSE, FALSE, FALSE)

HookConfigs ==
    { NoConfig,
      HookConfig(TRUE, TRUE, TRUE, TRUE, TRUE),
      HookConfig(TRUE, TRUE, FALSE, TRUE, TRUE),
      HookConfig(TRUE, FALSE, TRUE, TRUE, TRUE),
      HookConfig(TRUE, TRUE, TRUE, TRUE, FALSE) }

\* connectConfig || config
FinalConfig(connectConfig) == IF connectConfig.given THEN connectConfig ELSE hookConfig

\* finalConfig?.provider && finalConfig?.contractAddress && finalConfig?.contractABI
IsComplete(cfg) == cfg.provider /\ cfg.contractAddress /\ cfg.contractABI

\* useState<FHEVMState>({client: null, isConnected: false, isLoading: false, error: null})
InitialState == [client |-> NULL, isConnected |-> FALSE, isLoading |-> FALSE, error |-> NULL]

\* setState(prev => ({...prev, error}))
SetError(prev, error) == [prev EXCEPT !.error = error]

\* a "connecting" state that also takes the connected flag down
SetLoadingResettingFlag(prev) ==
    [prev EXCEPT !.isConnected = FALSE, !.isLoading = TRUE, !.error = NULL]

\* setState(prev => ({...prev, isLoading: true, error: null}))
SetLoading(prev) == [prev EXCEPT !.isLoading = TRUE, !.error = NULL]

\* setState({client, isConnected: true, isLoading: false, error: null})
Connected(c) == [client |-> c, isConnected |-> TRUE, isLoading |-> FALSE, error |-> NULL]

\* error instanceof Error ? error : new Error(message)
ErrorOr(error, message) == IF error.isError THEN error ELSE Error(<<message>>)

\* setState({client: null, isConnected: false, isLoading: false, error: ...})
ConnectFailed(error) ==
    [client |-> NULL, isConnected |-> FALSE, isLoading |-> FALSE,
     error |-> ErrorOr(error, "Failed to connect")]

MissingConfigurationError ==
    Error(<<"Missing required configuration: provider, contractAddress, or contractABI">>)

\* connect(connectConfig) up to its await of createFHEVMClient(finalConfig)
Connect(connectConfig) ==
    /\ IF ~IsComplete(FinalConfig(connectConfig))
       THEN /\ hookState' = SetError(hookState, MissingConfigurationError)
            /\ connects' = connects
       ELSE /\ Len(connects) < MaxConnects
            /\ hookState' = SetLoading(hookState)
            /\ connects' = Append(connects, FinalConfig(connectConfig))
    /\ disconnectedSince' = FALSE
    /\ UNCHANGED <<hookConfig, hookCall>>
    /\ UNCHANGED exceptHook

\* the auto-connect effect: connect() when a complete config was provided and the
\* hook is not connected
AutoConnect ==
    /\ IsComplete(hookConfig)
    /\ ~hookState.isConnected
    /\ Connect(NoConfig)

\* what createFHEVMClient(cfg) can settle with: the client, or what getNetwork,
\* _getConnection or createInstance threw
CreateOutcomes(cfg) ==
    { Returned(CreatedClient(cfg)),
      Thrown(LibraryError("createInstance")),
      Thrown([isError |-> FALSE, message |-> <<"timeout">>]) }

RemoveAt(s, i) == SubSeq(s, 1, i - 1) \o SubSeq(s, i + 1, Len(s))

\* the createFHEVMClient of the i-th connect call in flight settles; the rest of
\* connect runs
ConnectSettle(i, outcome) ==
    /\ i \in 1..Len(connects)
    /\ outcome \in CreateOutcomes(connects[i])
    /\ hookState' = IF outcome.kind = "ok" THEN Connected(outcome.value)
                    ELSE ConnectFailed(outcome.error)
    /\ connects' = RemoveAt(connects, i)
    /\ UNCHANGED <<hookConfig, disconnectedSince, hookCall>>
    /\ UNCHANGED exceptHook

\* disconnect()
Disconnect ==
    /\ hookState' = InitialState
    /\ disconnectedSince' = TRUE
    /\ UNCHANGED <<hookConfig, connects, hookCall>>
    /\ UNCHANGED exceptHook

\* disconnectClient called on the client the hook returned
HookClientTornDown ==
    /\ hookState.client # NULL
    /\ hookState.client.isInitialized
    /\ hookState' = [hookState EXCEPT !.client = disconnectClient(hookState.client)]
    /\ UNCHANGED <<hookConfig, connects, disconnectedSince, hookCall>>
    /\ UNCHANGED exceptHook

\* the operations of the hook and the adapter each of them awaits
HookOps == {"encrypt", "encryptMultiple", "decrypt", "decryptU8", "decryptU32"}

NoHookCall == [op |-> "none", pc |-> "idle", adapter |-> NotRun, ret |-> NotRun]

\* the message of the Error an operation records when its adapter threw no Error
FailureMessage(op) ==
    IF op = "encrypt" THEN "Encryption failed"
    ELSE IF op = "encryptMultiple" THEN "Batch encryption failed"
    ELSE "Decryption failed"

\* what the adapter of an operation can settle with
HookAdapterOutcomes(op) ==
    { Returned(IF op = "encrypt" THEN [handles |-> <<"h1">>, inputProof |-> "proof"]
               ELSE IF op = "encryptMultiple"
               THEN [handles |-> <<"h1", "h2">>, inputProof |-> "proof"]
               ELSE IF op = "decrypt" THEN [value |-> Nat1(42), decrypted |-> TRUE]
               ELSE Number(Nat1(42))),
      Thrown(Error(<<"Decryption failed: ", "Unauthorized">>)),
      Thrown([isError |-> FALSE, message |-> <<"timeout">>]) }

\* return await adapter(...), decrypt returning result.value
HookReturn(op, value) == IF op = "decrypt" THEN value.value ELSE value

\* an operation whose catch lets the adapter's throw through
hookOpSettleRethrowing(prev, op, outcome) ==
    IF outcome.kind = "ok"
    THEN [state |-> prev, ret |-> Returned(HookReturn(op, outcome.value))]
    ELSE [state |-> prev, ret |-> outcome]

\* the try / catch of an operation around its adapter: the state it leaves and
\* what its own promise settles with
hookOpSettle(prev, op, outcome) ==
    IF outcome.kind = "ok"
    THEN [state |-> prev, ret |-> Returned(HookReturn(op, outcome.value))]
    ELSE [state |-> SetError(prev, ErrorOr(outcome.error, FailureMessage(op))),
          ret |-> Returned(NULL)]

\* encrypt, encryptMultiple, decrypt, decryptU8 or decryptU32 up to the await of
\* its adapter
HookOp(op) ==
    /\ hookCall.pc # "adapter"
    /\ IF hookState.client = NULL \/ ~isClientInitialized(hookState.client)
       THEN /\ hookState' = SetError(hookState, Error(<<"Client not initialized">>))
            /\ hookCall' = [op |-> op, pc |-> "done", adapter |-> NotRun,
                            ret |-> Returned(NULL)]
       ELSE /\ hookState' = hookState
            /\ hookCall' = [op |-> op, pc |-> "adapter", adapter |-> NotRun,
                            ret |-> NotRun]
    /\ UNCHANGED <<hookConfig, connects, disconnectedSince>>
    /\ UNCHANGED exceptHook

\* the adapter settles; the rest of the operation runs
HookOpSettle(outcome) ==
    /\ hookCall.pc = "adapter"
    /\ outcome \in HookAdapterOutcomes(hookCall.op)
    /\ LET settled == hookOpSettle(hookState, hookCall.op, outcome)
       IN  /\ hookState' = settled.state
           /\ hookCall' = [hookCall EXCEPT !.pc = "done", !.adapter = outcome,
                                           !.ret = settled.ret]
    /\ UNCHANGED <<hookConfig, connects, disconnectedSince>>
    /\ UNCHANGED exceptHook

----------------------------------------------------------------------------
(* React hooks: useFHEVMWrite *)

MaxWrites == 2

\* the arguments of the hook: the client (or null) and whether the contract has a
\* function of the name given
WriteHooks == [client : InitialClients, hasFunction : BOOLEAN]

\* useState(false), useState(null), useState(null)
InitialWriteState == [isLoading |-> FALSE, error |-> NULL, txHash |-> NULL]

NoWrite == [pc |-> "idle", submitted |-> NotRun, waited |-> NotRun, ret |-> NotRun]

NoWrites == [id \in 1..MaxWrites |-> NoWrite]

\* the transaction object the contract call of write call id resolves to
Tx(id) == [hash |-> <<"0xT", id>>]

\* catch: setError(err instanceof Error ? err : new Error('Write failed'));
\* return null; finally: setIsLoading(false)
writeFailed(prev, w, err) ==
    [state |-> [prev EXCEPT !.error = ErrorOr(err, "Write failed"), !.isLoading = FALSE],
     call |-> [w EXCEPT !.pc = "done", !.ret = Returned(NULL)]]

\* write(...args) up to its first await
Write(id) ==
    /\ writes[id].pc = "idle"
    /\ IF writeHook.client = NULL \/ ~isClientInitialized(writeHook.client)
       THEN /\ writeState' = [writeState EXCEPT !.error = Error(<<"Client not initialized">>)]
            /\ writes' = [writes EXCEPT ![id] = [@ EXCEPT !.pc = "done",
                                                         !.ret = Returned(NULL)]]
       ELSE LET started == [isLoading |-> TRUE, error |-> NULL, txHash |-> NULL]
            IN  IF ~writeHook.hasFunction
                THEN LET failed == writeFailed(started, writes[id], TypeError("contract function"))
                     IN  /\ writeState' = failed.state
                         /\ writes' = [writes EXCEPT ![id] = failed.call]
                ELSE /\ writeState' = started
                     /\ writes' = [writes EXCEPT ![id] = [@ EXCEPT !.pc = "submit"]]
    /\ UNCHANGED writeHook
    /\ UNCHANGED exceptWrite

\* what the contract call and tx.wait() can settle with
TxOutcomes(id) ==
    { Returned(Tx(id)),
      Thrown(Error(<<"transaction reverted">>)),
      Thrown([isError |-> FALSE, message |-> <<"rejected">>]) }

\* a write that returns the transaction as soon as it was submitted
writeSubmittedNoWait(prev, w, outcome) ==
    IF outcome.kind = "throw"
    THEN writeFailed(prev, [w EXCEPT !.submitted = outcome], outcome.error)
    ELSE [state |-> [prev EXCEPT !.txHash = outcome.value.hash, !.isLoading = FALSE],
          call |-> [w EXCEPT !.pc = "done", !.submitted = outcome,
                             !.ret = Returned(outcome.value)]]

\* the contract call settled: setTxHash(tx.hash), then await tx.wait()
writeSubmitted(prev, w, outcome) ==
    IF outcome.kind = "throw"
    THEN writeFailed(prev, [w EXCEPT !.submitted = outcome], outcome.error)
    ELSE [state |-> [prev EXCEPT !.txHash = outcome.value.hash],
          call |-> [w EXCEPT !.pc = "wait", !.submitted = outcome]]

\* tx.wait() settled: return tx, then finally setIsLoading(false)
writeConfirmed(prev, w, outcome) ==
    IF outcome.kind = "throw"
    THEN writeFailed(prev, [w EXCEPT !.waited = outcome], outcome.error)
    ELSE [state |-> [prev EXCEPT !.isLoading = FALSE],
          call |-> [w EXCEPT !.pc = "done", !.waited = outcome,
                             !.ret = Returned(w.submitted.value)]]

\* the contract call of write call id settles; the call runs up to its next await
WriteSubmitSettle(id, outcome) ==
    /\ writes[id].pc = "submit"
    /\ outcome \in TxOutcomes(id)
    /\ LET next == writeSubmitted(writeState, writes[id], outcome)
       IN  /\ writeState' = next.state
           /\ writes' = [writes EXCEPT ![id] = next.call]
    /\ UNCHANGED writeHook
    /\ UNCHANGED exceptWrite

\* tx.wait() of write call id settles; the call runs to its return
WriteWaitSettle(id, outcome) ==
    /\ writes[id].pc = "wait"
    /\ outcome \in TxOutcomes(id)
    /\ LET next == writeConfirmed(writeState, writes[id], outcome)
       IN  /\ writeState' = next.state
           /\ writes' = [writes EXCEPT ![id] = next.call]
    /\ UNCHANGED writeHook
    /\ UNCHANGED exceptWrite

----------------------------------------------------------------------------
(* React hooks: useFHEVMRead *)

MaxReads == 2
MaxRefetches == 1

\* the arguments of the hook, which stay the same objects from render to render:
\* the client (or null), and whether an args array is passed (when none is, the
\* default `args = []` is evaluated anew by every render)
ReadHooks == [client : InitialClients, argsGiven : BOOLEAN]

\* useState(null), useState(false), useState(null)
InitialReadState == [data |-> NULL, isLoading |-> FALSE, error |-> NULL]

\* the component was mounted: the first render is committed, its effect not yet run
Mounted == [pending |-> FALSE, effect |-> TRUE]

\* useCallback(..., [client, functionName, args]): whether a render gives read a
\* new identity, so that the effect with deps [read] runs after it
ReadChanges == ~readHook.argsGiven

\* read() up to its await: the state it sets, whether a setter was given a value
\* that is not the current one (a new Error object never is), whether a contract
\* read was issued
readStart(prev) ==
    IF readHook.client = NULL \/ ~isClientInitialized(readHook.client)
    THEN [state |-> [prev EXCEPT !.error = Error(<<"Client not initialized">>)],
          changed |-> TRUE, issued |-> FALSE]
    ELSE [state |-> [prev EXCEPT !.isLoading = TRUE, !.error = NULL],
          changed |-> prev # [prev EXCEPT !.isLoading = TRUE, !.error = NULL],
          issued |-> TRUE]

\* what the contract read can settle with
ReadOutcomes ==
    { Returned(Nat1(3)),
      Thrown(Error(<<"call reverted">>)),
      Thrown([isError |-> FALSE, message |-> <<"timeout">>]) }

\* the rest of read(): setData(result), or the catch; then finally
readSettled(prev, outcome) ==
    IF outcome.kind = "ok"
    THEN [state |-> [prev EXCEPT !.data = outcome.value, !.isLoading = FALSE],
          changed |-> prev # [prev EXCEPT !.data = outcome.value, !.isLoading = FALSE]]
    ELSE [state |-> [prev EXCEPT !.error = ErrorOr(outcome.error, "Read failed"),
                                 !.isLoading = FALSE],
          changed |-> TRUE]

\* React renders the component after a state change, once the effects of the
\* previous render have run
Render ==
    /\ readRender.pending
    /\ ~readRender.effect
    /\ readRender' = [pending |-> FALSE, effect |-> ReadChanges]
    /\ UNCHANGED <<readHook, readState, reads, refetches>>
    /\ UNCHANGED exceptRead

\* the effect of a render that changed read: read()
RunEffect ==
    /\ readRender.effect
    /\ LET start == readStart(readState)
       IN  /\ start.issued => reads < MaxReads
           /\ readState' = start.state
           /\ reads' = IF start.issued THEN reads + 1 ELSE reads
           /\ readRender' = [pending |-> readRender.pending \/ start.changed,
                             effect |-> FALSE]
    /\ UNCHANGED <<readHook, refetches>>
    /\ UNCHANGED exceptRead

\* refetch(), called by the component's user
Refetch ==
    /\ refetches < MaxRefetches
    /\ LET start == readStart(readState)
       IN  /\ start.issued => reads < MaxReads
           /\ readState' = start.state
           /\ reads' = IF start.issued THEN reads + 1 ELSE reads
           /\ readRender' = [readRender EXCEPT !.pending = @ \/ start.changed]
    /\ refetches' = refetches + 1
    /\ UNCHANGED readHook
    /\ UNCHANGED exceptRead

\* a contract read in flight settles; the rest of its read() runs
ReadSettle(outcome) ==
    /\ reads > 0
    /\ LET settled == readSettled(readState, outcome)
       IN  /\ readState' = settled.state
           /\ readRender' = [readRender EXCEPT !.pending = @ \/ settled.changed]
    /\ reads' = reads - 1
    /\ UNCHANGED <<readHook, refetches>>
    /\ UNCHANGED exceptRead

----------------------------------------------------------------------------
(* Contract: PrivateMuseumVisitTracker *)

MaxExhibitions == 1

\* the accounts that send transactions; the first deployed the contract
Addresses == {"0xD", "0xM", "0xV"}
Deployer == "0xD"

\* the accounts that ask to be registered as visitors
Visitors == {"0xM", "0xV"}

\* the keys of the uint32 mappings looked at: 0 and one id past the last are never
\* an exhibition
ExhibitionIds == 0..(MaxExhibitions + 1)

ExhibitionTypes == {"History", "Art"}
AgeGroups == {"Child", "Teen", "Adult", "Senior"}

\* block.timestamp, the same for the transactions followed, and its day
BlockTimestamp == 1700000000
Today == BlockTimestamp \div 86400

\* An euint is modelled by the integer it encrypts; FHE.add adds modulo 2^32, which
\* the counts followed never reach. The ACL grants (FHE.allow, FHE.allowThis) are
\* kept by the ACL contract, not by this one.
FHEAdd(a, b) == a + b

\* the value of a mapping entry never written
NoExhibition ==
    [name |-> "", exhibitionType |-> "History", startDate |-> 0, endDate |-> 0,
     isActive |-> FALSE, privateVisitorCount |-> 0, privateSatisfactionSum |-> 0,
     publicVisitorCount |-> 0]

NoProfile ==
    [isRegistered |-> FALSE, encryptedAge |-> 0, encryptedAgeGroup |-> "Child",
     totalVisits |-> 0, registrationDate |-> 0]

NoRecord ==
    [exhibitionId |-> 0, encryptedTimestamp |-> 0, encryptedSatisfaction |-> 0,
     encryptedDuration |-> 0, encryptedInterestLevel |-> 0, isRecorded |-> FALSE]

NoTx == [fn |-> "constructor", sender |-> Deployer, reverted |-> FALSE]

storage ==
    <<owner, museumManager, totalExhibitions, totalRegisteredVisitors, exhibitions,
      visitorProfiles, visitRecords, exhibitionVisitors, typeVisitorCounts,
      dailyVisitorCounts, ageGroupCounts>>

\* the modifiers' conditions
onlyOwner(sender) == sender = owner
onlyRegisteredVisitor(sender) == visitorProfiles[sender].isRegistered

\* a modifier that lets every account through
onlyMuseumManagerOpen(sender) == TRUE

onlyMuseumManager(sender) == sender = museumManager \/ sender = owner

\* a transaction that reverts: a failed require, or a failure of an FHE call;
\* every change it made is undone
Revert(fn, sender) ==
    /\ lastTx' = [fn |-> fn, sender |-> sender, reverted |-> TRUE]
    /\ UNCHANGED storage

Done(fn, sender) == lastTx' = [fn |-> fn, sender |-> sender, reverted |-> FALSE]

\* setMuseumManager(_manager)
SetMuseumManager(sender, manager) ==
    /\ IF ~onlyOwner(sender) THEN Revert("setMuseumManager", sender)
       ELSE /\ museumManager' = manager
            /\ Done("setMuseumManager", sender)
            /\ UNCHANGED <<owner, totalExhibitions, totalRegisteredVisitors, exhibitions,
                           visitorProfiles, visitRecords, exhibitionVisitors,
                           typeVisitorCounts, dailyVisitorCounts, ageGroupCounts>>
    /\ UNCHANGED exceptMuseum

\* the arguments createExhibition is called with (type, start date, end date) and
\* whether its FHE calls succeed: a valid call, an empty date range, an FHE failure
CreateArgs ==
    { <<"Art", 1, 2, TRUE>>, <<"Art", 2, 2, TRUE>>, <<"Art", 1, 2, FALSE>> }

\* createExhibition(_name, _type, _startDate, _endDate)
CreateExhibition(sender, type, startDate, endDate, fheOk) ==
    /\ IF ~onlyMuseumManager(sender) \/ ~(endDate > startDate) \/ ~fheOk
       THEN Revert("createExhibition", sender)
       ELSE /\ totalExhibitions < MaxExhibitions
            /\ totalExhibitions' = totalExhibitions + 1
            /\ exhibitions' = [exhibitions EXCEPT ![totalExhibitions + 1] =
                    [name |-> "name", exhibitionType |-> type, startDate |-> startDate,
                     endDate |-> endDate, isActive |-> TRUE, privateVisitorCount |-> 0,
                     privateSatisfactionSum |-> 0, publicVisitorCount |-> 0]]
            /\ Done("createExhibition", sender)
            /\ UNCHANGED <<owner, museumManager, totalRegisteredVisitors, visitorProfiles,
                           visitRecords, exhibitionVisitors, typeVisitorCounts,
                           dailyVisitorCounts, ageGroupCounts>>
    /\ UNCHANGED exceptMuseum

\* the age group registerVisitor derives from the age
AgeGroupOf(age) ==
    IF age < 13 THEN "Child" ELSE IF age < 20 THEN "Teen"
    ELSE IF age < 60 THEN "Adult" ELSE "Senior"

\* a registerVisitor that registers again
AlreadyRegisteredUnchecked(sender) == FALSE

\* visitorProfiles[msg.sender].isRegistered, which registerVisitor requires false
AlreadyRegistered(sender) == visitorProfiles[sender].isRegistered

\* registerVisitor(_age)
RegisterVisitor(sender, age, fheOk) ==
    /\ IF AlreadyRegistered(sender) \/ ~(age > 0 /\ age < 120) \/ ~fheOk
       THEN Revert("registerVisitor", sender)
       ELSE /\ visitorProfiles' = [visitorProfiles EXCEPT ![sender] =
                    [isRegistered |-> TRUE, encryptedAge |-> age,
                     encryptedAgeGroup |-> AgeGroupOf(age), totalVisits |-> 0,
                     registrationDate |-> BlockTimestamp]]
            /\ ageGroupCounts' = [ageGroupCounts EXCEPT ![AgeGroupOf(age)] = FHEAdd(@, 1)]
            /\ totalRegisteredVisitors' = totalRegisteredVisitors + 1
            /\ Done("registerVisitor", sender)
            /\ UNCHANGED <<owner, museumManager, totalExhibitions, exhibitions,
                           visitRecords, exhibitionVisitors, typeVisitorCounts,
                           dailyVisitorCounts>>
    /\ UNCHANGED exceptMuseum

\* the arguments recordPrivateVisit is called with besides the id (satisfaction,
\* duration, interest level) and whether its FHE calls succeed
RecordArgs ==
    { <<7, 45, 3, TRUE>>, <<11, 45, 3, TRUE>>, <<7, 45, 0, TRUE>>, <<7, 45, 3, FALSE>> }

\* a recordPrivateVisit that records a visit again
AlreadyRecordedUnchecked(sender, id) == FALSE

\* visitRecords[msg.sender][_exhibitionId].isRecorded, which recordPrivateVisit
\* requires false
AlreadyRecorded(sender, id) == visitRecords[sender][id].isRecorded

\* recordPrivateVisit(_exhibitionId, _satisfaction, _duration, _interestLevel)
RecordPrivateVisit(sender, id, satisfaction, duration, interestLevel, fheOk) ==
    /\ IF \/ ~onlyRegisteredVisitor(sender)
          \/ ~(id > 0 /\ id <= totalExhibitions)
          \/ ~exhibitions[id].isActive
          \/ ~(satisfaction >= 1 /\ satisfaction <= 10)
          \/ ~(interestLevel >= 1 /\ interestLevel <= 5)
          \/ AlreadyRecorded(sender, id)
          \/ ~fheOk
       THEN Revert("recordPrivateVisit", sender)
       ELSE /\ visitRecords' = [visitRecords EXCEPT ![sender][id] =
                    [exhibitionId |-> id, encryptedTimestamp |-> BlockTimestamp,
                     encryptedSatisfaction |-> satisfaction,
                     encryptedDuration |-> duration,
                     encryptedInterestLevel |-> interestLevel, isRecorded |-> TRUE]]
            /\ exhibitions' = [exhibitions EXCEPT ![id] =
                    [@ EXCEPT !.privateVisitorCount = FHEAdd(@, 1),
                              !.privateSatisfactionSum = FHEAdd(@, satisfaction),
                              !.publicVisitorCount = @ + 1]]
            /\ typeVisitorCounts' = [typeVisitorCounts EXCEPT
                    ![exhibitions[id].exhibitionType] = FHEAdd(@, 1)]
            /\ visitorProfiles' = [visitorProfiles EXCEPT
                    ![sender].totalVisits = FHEAdd(@, 1)]
            /\ dailyVisitorCounts' = [dailyVisitorCounts EXCEPT ![Today] = FHEAdd(@, 1)]
            /\ exhibitionVisitors' = [exhibitionVisitors EXCEPT ![id] = Append(@, sender)]
            /\ Done("recordPrivateVisit", sender)
            /\ UNCHANGED <<owner, museumManager, totalExhibitions,
                           totalRegisteredVisitors, ageGroupCounts>>
    /\ UNCHANGED exceptMuseum

\* requestExhibitionStats(_exhibitionId): it writes nothing of the contract's own
RequestExhibitionStats(sender, id, fheOk) ==
    /\ IF ~onlyMuseumManager(sender) \/ ~(id > 0 /\ id <= totalExhibitions) \/ ~fheOk
       THEN Revert("requestExhibitionStats", sender)
       ELSE Done("requestExhibitionStats", sender) /\ UNCHANGED storage
    /\ UNCHANGED exceptMuseum

\* processStatsReveal(requestId, visitorCount, satisfactionSum): an empty body,
\* open to every account
ProcessStatsReveal(sender) ==
    /\ Done("processStatsReveal", sender)
    /\ UNCHANGED storage
    /\ UNCHANGED exceptMuseum

\* setExhibitionStatus(_exhibitionId, _isActive)
SetExhibitionStatus(sender, id, isActive) ==
    /\ IF ~onlyMuseumManager(sender) \/ ~(id > 0 /\ id <= totalExhibitions)
       THEN Revert("setExhibitionStatus", sender)
       ELSE /\ exhibitions' = [exhibitions EXCEPT ![id].isActive = isActive]
            /\ Done("setExhibitionStatus", sender)
            /\ UNCHANGED <<owner, museumManager, totalExhibitions,
                           totalRegisteredVisitors, visitorProfiles, visitRecords,
                           exhibitionVisitors, typeVisitorCounts, dailyVisitorCounts,
                           ageGroupCounts>>
    /\ UNCHANGED exceptMuseum

----------------------------------------------------------------------------
(* Specifications *)

\* the value encoder applied to one argument
InitEncoder ==
    /\ encArg \in [value : EncoderValues, type : EncTypes]
    /\ encRet = NotRun /\ validRet = NotRun
    /\ client = NULL /\ call = NoCall /\ subs = <<>> /\ result = NotRun /\ instLog = <<>>
    /\ answers = <<>> /\ completed = <<>>
    /\ encCalls = NoCalls /\ builders = <<>>
    /\ config = [provider |-> TRUE, signer |-> TRUE, contractAddress |-> TRUE,
                 contractABI |-> TRUE, gatewayUrl |-> TRUE]
    /\ createPc = "idle" /\ createLog = <<>> /\ createRet = NotRun
    /\ retryArgs = [maxRetries |-> 3, baseDelay |-> 1000]
    /\ retryPc = "idle" /\ loopI = 0 /\ lastError = [kind |-> "null"]
    /\ attempts = <<>> /\ running = 0 /\ delays = <<>> /\ retryRet = NotRun
    /\ hookConfig = NoConfig /\ hookState = InitialState /\ connects = <<>>
    /\ disconnectedSince = FALSE /\ hookCall = NoHookCall
    /\ writeHook = [client |-> NULL, hasFunction |-> TRUE]
    /\ writeState = InitialWriteState /\ writes = NoWrites
    /\ readHook = [client |-> NULL, argsGiven |-> TRUE]
    /\ readState = InitialReadState /\ readRender = Mounted /\ reads = 0 /\ refetches = 0
    /\ owner = Deployer /\ museumManager = Deployer
    /\ totalExhibitions = 0 /\ totalRegisteredVisitors = 0
    /\ exhibitions = [id \in ExhibitionIds |-> NoExhibition]
    /\ visitorProfiles = [a \in Addresses |-> NoProfile]
    /\ visitRecords = [a \in Addresses |-> [id \in ExhibitionIds |-> NoRecord]]
    /\ exhibitionVisitors = [id \in ExhibitionIds |-> <<>>]
    /\ typeVisitorCounts = [t \in ExhibitionTypes |-> 0]
    /\ dailyVisitorCounts = [d \in {Today} |-> 0]
    /\ ageGroupCounts = [g \in AgeGroups |-> 0]
    /\ lastTx = NoTx

NextEncoder ==
    \/ ToBigInt
    \/ IsValidValue

SpecEncoder == InitEncoder /\ [][NextEncoder]_vars

\* one adapter call on a client, and disconnectClient
Init ==
    /\ encArg = [value |-> Zero, type |-> "uint8"]
    /\ encRet = NotRun /\ validRet = NotRun
    /\ client \in InitialClients
    /\ call = NoCall /\ subs = <<>> /\ result = NotRun /\ instLog = <<>>
    /\ answers = <<>> /\ completed = <<>>
    /\ encCalls = NoCalls /\ builders = <<>>
    /\ config = [provider |-> TRUE, signer |-> TRUE, contractAddress |-> TRUE,
                 contractABI |-> TRUE, gatewayUrl |-> TRUE]
    /\ createPc = "idle" /\ createLog = <<>> /\ createRet = NotRun
    /\ retryArgs = [maxRetries |-> 3, baseDelay |-> 1000]
    /\ retryPc = "idle" /\ loopI = 0 /\ lastError = [kind |-> "null"]
    /\ attempts = <<>> /\ running = 0 /\ delays = <<>> /\ retryRet = NotRun
    /\ hookConfig = NoConfig /\ hookState = InitialState /\ connects = <<>>
    /\ disconnectedSince = FALSE /\ hookCall = NoHookCall
    /\ writeHook = [client |-> NULL, hasFunction |-> TRUE]
    /\ writeState = InitialWriteState /\ writes = NoWrites
    /\ readHook = [client |-> NULL, argsGiven |-> TRUE]
    /\ readState = InitialReadState /\ readRender = Mounted /\ reads = 0 /\ refetches = 0
    /\ owner = Deployer /\ museumManager = Deployer
    /\ totalExhibitions = 0 /\ totalRegisteredVisitors = 0
    /\ exhibitions = [id \in ExhibitionIds |-> NoExhibition]
    /\ visitorProfiles = [a \in Addresses |-> NoProfile]
    /\ visitRecords = [a \in Addresses |-> [id \in ExhibitionIds |-> NoRecord]]
    /\ exhibitionVisitors = [id \in ExhibitionIds |-> <<>>]
    /\ typeVisitorCounts = [t \in ExhibitionTypes |-> 0]
    /\ dailyVisitorCounts = [d \in {Today} |-> 0]
    /\ ageGroupCounts = [g \in AgeGroups |-> 0]
    /\ lastTx = NoTx

Next ==
    \/ \E input \in EncryptionInputs : EncryptValue(input)
    \/ \E inputs \in EncryptionBatches : EncryptBatch(inputs)
    \/ \E failAt \in 0..(MaxBatch + 3) : EncryptResume(failAt)
    \/ \E request \in DecryptionRequests : DecryptValue(request)
    \/ \E requests \in RequestBatches : DecryptBatch(requests)
    \/ \E k \in 1..MaxRequests, outcome \in UNION {GatewayOutcomes(h) : h \in DecHandles} :
          GatewayRespond(k, outcome)
    \/ \E arg \in CanDecryptArgs : CanDecrypt(arg)
    \/ \E op \in {"decryptUint8", "decryptUint32"}, arg \in CanDecryptArgs :
          DecryptUint(op, arg)
    \/ \E arg \in ReencryptArgs : Reencrypt(arg)
    \/ \E outcome \in ReencryptOutcomes : ReencryptRespond(outcome)
    \/ DisconnectClient

Spec == Init /\ [][Next]_vars

\* encryption calls in flight together on a created client, a decryptValue of a
\* handle they returned, and disconnectClient
InitSession ==
    /\ encArg = [value |-> Zero, type |-> "uint8"]
    /\ encRet = NotRun /\ validRet = NotRun
    /\ client \in CreatedClients
    /\ call = NoCall /\ subs = <<>> /\ result = NotRun /\ instLog = <<>>
    /\ answers = <<>> /\ completed = <<>>
    /\ encCalls = NoCalls /\ builders = <<>>
    /\ config = [provider |-> TRUE, signer |-> TRUE, contractAddress |-> TRUE,
                 contractABI |-> TRUE, gatewayUrl |-> TRUE]
    /\ createPc = "idle" /\ createLog = <<>> /\ createRet = NotRun
    /\ retryArgs = [maxRetries |-> 3, baseDelay |-> 1000]
    /\ retryPc = "idle" /\ loopI = 0 /\ lastError = [kind |-> "null"]
    /\ attempts = <<>> /\ running = 0 /\ delays = <<>> /\ retryRet = NotRun
    /\ hookConfig = NoConfig /\ hookState = InitialState /\ connects = <<>>
    /\ disconnectedSince = FALSE /\ hookCall = NoHookCall
    /\ writeHook = [client |-> NULL, hasFunction |-> TRUE]
    /\ writeState = InitialWriteState /\ writes = NoWrites
    /\ readHook = [client |-> NULL, argsGiven |-> TRUE]
    /\ readState = InitialReadState /\ readRender = Mounted /\ reads = 0 /\ refetches = 0
    /\ owner = Deployer /\ museumManager = Deployer
    /\ totalExhibitions = 0 /\ totalRegisteredVisitors = 0
    /\ exhibitions = [id \in ExhibitionIds |-> NoExhibition]
    /\ visitorProfiles = [a \in Addresses |-> NoProfile]
    /\ visitRecords = [a \in Addresses |-> [id \in ExhibitionIds |-> NoRecord]]
    /\ exhibitionVisitors = [id \in ExhibitionIds |-> <<>>]
    /\ typeVisitorCounts = [t \in ExhibitionTypes |-> 0]
    /\ dailyVisitorCounts = [d \in {Today} |-> 0]
    /\ ageGroupCounts = [g \in AgeGroups |-> 0]
    /\ lastTx = NoTx

NextSession ==
    \/ \E id \in 1..MaxCalls, c \in SessionCalls : SessionEncrypt(id, c)
    \/ \E id \in 1..MaxCalls, failAt \in 0..5 : SessionResume(id, failAt)
    \/ \E id \in 1..MaxCalls, k \in 1..2 : SessionDecrypt(id, k)
    \/ SessionGatewayRespond
    \/ DisconnectClient

SpecSession == InitSession /\ [][NextSession]_vars

\* one createFHEVMClient call
InitCreate ==
    /\ encArg = [value |-> Zero, type |-> "uint8"]
    /\ encRet = NotRun /\ validRet = NotRun
    /\ client = NULL /\ call = NoCall /\ subs = <<>> /\ result = NotRun /\ instLog = <<>>
    /\ answers = <<>> /\ completed = <<>>
    /\ encCalls = NoCalls /\ builders = <<>>
    /\ config \in Configs
    /\ createPc = "idle" /\ createLog = <<>> /\ createRet = NotRun
    /\ retryArgs = [maxRetries |-> 3, baseDelay |-> 1000]
    /\ retryPc = "idle" /\ loopI = 0 /\ lastError = [kind |-> "null"]
    /\ attempts = <<>> /\ running = 0 /\ delays = <<>> /\ retryRet = NotRun
    /\ hookConfig = NoConfig /\ hookState = InitialState /\ connects = <<>>
    /\ disconnectedSince = FALSE /\ hookCall = NoHookCall
    /\ writeHook = [client |-> NULL, hasFunction |-> TRUE]
    /\ writeState = InitialWriteState /\ writes = NoWrites
    /\ readHook = [client |-> NULL, argsGiven |-> TRUE]
    /\ readState = InitialReadState /\ readRender = Mounted /\ reads = 0 /\ refetches = 0
    /\ owner = Deployer /\ museumManager = Deployer
    /\ totalExhibitions = 0 /\ totalRegisteredVisitors = 0
    /\ exhibitions = [id \in ExhibitionIds |-> NoExhibition]
    /\ visitorProfiles = [a \in Addresses |-> NoProfile]
    /\ visitRecords = [a \in Addresses |-> [id \in ExhibitionIds |-> NoRecord]]
    /\ exhibitionVisitors = [id \in ExhibitionIds |-> <<>>]
    /\ typeVisitorCounts = [t \in ExhibitionTypes |-> 0]
    /\ dailyVisitorCounts = [d \in {Today} |-> 0]
    /\ ageGroupCounts = [g \in AgeGroups |-> 0]
    /\ lastTx = NoTx

NextCreate ==
    \/ \E contractThrows \in BOOLEAN : CreateStart(contractThrows)
    \/ \E ok \in BOOLEAN : GetNetworkSettle(ok)
    \/ \E ok \in BOOLEAN : GetConnectionSettle(ok)
    \/ \E ok \in BOOLEAN : CreateInstanceSettle(ok)

SpecCreate == InitCreate /\ [][NextCreate]_vars

\* one retry call
InitRetry ==
    /\ encArg = [value |-> Zero, type |-> "uint8"]
    /\ encRet = NotRun /\ validRet = NotRun
    /\ client = NULL /\ call = NoCall /\ subs = <<>> /\ result = NotRun /\ instLog = <<>>
    /\ answers = <<>> /\ completed = <<>>
    /\ encCalls = NoCalls /\ builders = <<>>
    /\ config = [provider |-> TRUE, signer |-> TRUE, contractAddress |-> TRUE,
                 contractABI |-> TRUE, gatewayUrl |-> TRUE]
    /\ createPc = "idle" /\ createLog = <<>> /\ createRet = NotRun
    /\ retryArgs \in RetryArgs
    /\ retryPc = "idle" /\ loopI = 0 /\ lastError = [kind |-> "null"]
    /\ attempts = <<>> /\ running = 0 /\ delays = <<>> /\ retryRet = NotRun
    /\ hookConfig = NoConfig /\ hookState = InitialState /\ connects = <<>>
    /\ disconnectedSince = FALSE /\ hookCall = NoHookCall
    /\ writeHook = [client |-> NULL, hasFunction |-> TRUE]
    /\ writeState = InitialWriteState /\ writes = NoWrites
    /\ readHook = [client |-> NULL, argsGiven |-> TRUE]
    /\ readState = InitialReadState /\ readRender = Mounted /\ reads = 0 /\ refetches = 0
    /\ owner = Deployer /\ museumManager = Deployer
    /\ totalExhibitions = 0 /\ totalRegisteredVisitors = 0
    /\ exhibitions = [id \in ExhibitionIds |-> NoExhibition]
    /\ visitorProfiles = [a \in Addresses |-> NoProfile]
    /\ visitRecords = [a \in Addresses |-> [id \in ExhibitionIds |-> NoRecord]]
    /\ exhibitionVisitors = [id \in ExhibitionIds |-> <<>>]
    /\ typeVisitorCounts = [t \in ExhibitionTypes |-> 0]
    /\ dailyVisitorCounts = [d \in {Today} |-> 0]
    /\ ageGroupCounts = [g \in AgeGroups |-> 0]
    /\ lastTx = NoTx

NextRetry ==
    \/ RetryStart
    \/ \E outcome \in FnOutcomes : FnSettle(outcome)
    \/ TimerFires

SpecRetry == InitRetry /\ [][NextRetry]_vars

\* the useFHEVM hook: connect calls in flight together, disconnect, one operation
InitHook ==
    /\ encArg = [value |-> Zero, type |-> "uint8"]
    /\ encRet = NotRun /\ validRet = NotRun
    /\ client = NULL /\ call = NoCall /\ subs = <<>> /\ result = NotRun /\ instLog = <<>>
    /\ answers = <<>> /\ completed = <<>>
    /\ encCalls = NoCalls /\ builders = <<>>
    /\ config = [provider |-> TRUE, signer |-> TRUE, contractAddress |-> TRUE,
                 contractABI |-> TRUE, gatewayUrl |-> TRUE]
    /\ createPc = "idle" /\ createLog = <<>> /\ createRet = NotRun
    /\ retryArgs = [maxRetries |-> 3, baseDelay |-> 1000]
    /\ retryPc = "idle" /\ loopI = 0 /\ lastError = [kind |-> "null"]
    /\ attempts = <<>> /\ running = 0 /\ delays = <<>> /\ retryRet = NotRun
    /\ hookConfig \in HookConfigs /\ hookState = InitialState /\ connects = <<>>
    /\ disconnectedSince = FALSE /\ hookCall = NoHookCall
    /\ writeHook = [client |-> NULL, hasFunction |-> TRUE]
    /\ writeState = InitialWriteState /\ writes = NoWrites
    /\ readHook = [client |-> NULL, argsGiven |-> TRUE]
    /\ readState = InitialReadState /\ readRender = Mounted /\ reads = 0 /\ refetches = 0
    /\ owner = Deployer /\ museumManager = Deployer
    /\ totalExhibitions = 0 /\ totalRegisteredVisitors = 0
    /\ exhibitions = [id \in ExhibitionIds |-> NoExhibition]
    /\ visitorProfiles = [a \in Addresses |-> NoProfile]
    /\ visitRecords = [a \in Addresses |-> [id \in ExhibitionIds |-> NoRecord]]
    /\ exhibitionVisitors = [id \in ExhibitionIds |-> <<>>]
    /\ typeVisitorCounts = [t \in ExhibitionTypes |-> 0]
    /\ dailyVisitorCounts = [d \in {Today} |-> 0]
    /\ ageGroupCounts = [g \in AgeGroups |-> 0]
    /\ lastTx = NoTx

NextHook ==
    \/ \E connectConfig \in HookConfigs : Connect(connectConfig)
    \/ AutoConnect
    \/ \E i \in 1..MaxConnects, outcome \in UNION {CreateOutcomes(cfg) : cfg \in HookConfigs} :
          ConnectSettle(i, outcome)
    \/ Disconnect
    \/ HookClientTornDown
    \/ \E op \in HookOps : HookOp(op)
    \/ \E outcome \in UNION {HookAdapterOutcomes(op) : op \in HookOps} : HookOpSettle(outcome)

SpecHook == InitHook /\ [][NextHook]_vars

\* the useFHEVMWrite hook: write calls in flight together
InitWrite ==
    /\ encArg = [value |-> Zero, type |-> "uint8"]
    /\ encRet = NotRun /\ validRet = NotRun
    /\ client = NULL /\ call = NoCall /\ subs = <<>> /\ result = NotRun /\ instLog = <<>>
    /\ answers = <<>> /\ completed = <<>>
    /\ encCalls = NoCalls /\ builders = <<>>
    /\ config = [provider |-> TRUE, signer |-> TRUE, contractAddress |-> TRUE,
                 contractABI |-> TRUE, gatewayUrl |-> TRUE]
    /\ createPc = "idle" /\ createLog = <<>> /\ createRet = NotRun
    /\ retryArgs = [maxRetries |-> 3, baseDelay |-> 1000]
    /\ retryPc = "idle" /\ loopI = 0 /\ lastError = [kind |-> "null"]
    /\ attempts = <<>> /\ running = 0 /\ delays = <<>> /\ retryRet = NotRun
    /\ hookConfig = NoConfig /\ hookState = InitialState /\ connects = <<>>
    /\ disconnectedSince = FALSE /\ hookCall = NoHookCall
    /\ writeHook \in WriteHooks
    /\ writeState = InitialWriteState /\ writes = NoWrites
    /\ readHook = [client |-> NULL, argsGiven |-> TRUE]
    /\ readState = InitialReadState /\ readRender = Mounted /\ reads = 0 /\ refetches = 0
    /\ owner = Deployer /\ museumManager = Deployer
    /\ totalExhibitions = 0 /\ totalRegisteredVisitors = 0
    /\ exhibitions = [id \in ExhibitionIds |-> NoExhibition]
    /\ visitorProfiles = [a \in Addresses |-> NoProfile]
    /\ visitRecords = [a \in Addresses |-> [id \in ExhibitionIds |-> NoRecord]]
    /\ exhibitionVisitors = [id \in ExhibitionIds |-> <<>>]
    /\ typeVisitorCounts = [t \in ExhibitionTypes |-> 0]
    /\ dailyVisitorCounts = [d \in {Today} |-> 0]
    /\ ageGroupCounts = [g \in AgeGroups |-> 0]
    /\ lastTx = NoTx

NextWrite ==
    \/ \E id \in 1..MaxWrites : Write(id)
    \/ \E id \in 1..MaxWrites : \E outcome \in TxOutcomes(id) : WriteSubmitSettle(id, outcome)
    \/ \E id \in 1..MaxWrites : \E outcome \in TxOutcomes(id) : WriteWaitSettle(id, outcome)

SpecWrite == InitWrite /\ [][NextWrite]_vars

\* the useFHEVMRead hook in a mounted component. React renders after a state
\* change and runs the effects of a render, and the contract answers every read:
\* these steps are taken when they stay possible. A refetch is the user's.
InitRead ==
    /\ encArg = [value |-> Zero, type |-> "uint8"]
    /\ encRet = NotRun /\ validRet = NotRun
    /\ client = NULL /\ call = NoCall /\ subs = <<>> /\ result = NotRun /\ instLog = <<>>
    /\ answers = <<>> /\ completed = <<>>
    /\ encCalls = NoCalls /\ builders = <<>>
    /\ config = [provider |-> TRUE, signer |-> TRUE, contractAddress |-> TRUE,
                 contractABI |-> TRUE, gatewayUrl |-> TRUE]
    /\ createPc = "idle" /\ createLog = <<>> /\ createRet = NotRun
    /\ retryArgs = [maxRetries |-> 3, baseDelay |-> 1000]
    /\ retryPc = "idle" /\ loopI = 0 /\ lastError = [kind |-> "null"]
    /\ attempts = <<>> /\ running = 0 /\ delays = <<>> /\ retryRet = NotRun
    /\ hookConfig = NoConfig /\ hookState = InitialState /\ connects = <<>>
    /\ disconnectedSince = FALSE /\ hookCall = NoHookCall
    /\ writeHook = [client |-> NULL, hasFunction |-> TRUE]
    /\ writeState = InitialWriteState /\ writes = NoWrites
    /\ readHook \in ReadHooks
    /\ readState = InitialReadState /\ readRender = Mounted /\ reads = 0 /\ refetches = 0
    /\ owner = Deployer /\ museumManager = Deployer
    /\ totalExhibitions = 0 /\ totalRegisteredVisitors = 0
    /\ exhibitions = [id \in ExhibitionIds |-> NoExhibition]
    /\ visitorProfiles = [a \in Addresses |-> NoProfile]
    /\ visitRecords = [a \in Addresses |-> [id \in ExhibitionIds |-> NoRecord]]
    /\ exhibitionVisitors = [id \in ExhibitionIds |-> <<>>]
    /\ typeVisitorCounts = [t \in ExhibitionTypes |-> 0]
    /\ dailyVisitorCounts = [d \in {Today} |-> 0]
    /\ ageGroupCounts = [g \in AgeGroups |-> 0]
    /\ lastTx = NoTx

NextRead ==
    \/ Render
    \/ RunEffect
    \/ Refetch
    \/ \E outcome \in ReadOutcomes : ReadSettle(outcome)

SpecRead ==
    /\ InitRead
    /\ [][NextRead]_vars
    /\ WF_vars(Render)
    /\ WF_vars(RunEffect)
    /\ WF_vars(\E outcome \in ReadOutcomes : ReadSettle(outcome))

\* the deployed PrivateMuseumVisitTracker contract and the transactions sent to it
InitMuseum ==
    /\ encArg = [value |-> Zero, type |-> "uint8"]
    /\ encRet = NotRun /\ validRet = NotRun
    /\ client = NULL /\ call = NoCall /\ subs = <<>> /\ result = NotRun /\ instLog = <<>>
    /\ answers = <<>> /\ completed = <<>>
    /\ encCalls = NoCalls /\ builders = <<>>
    /\ config = [provider |-> TRUE, signer |-> TRUE, contractAddress |-> TRUE,
                 contractABI |-> TRUE, gatewayUrl |-> TRUE]
    /\ createPc = "idle" /\ createLog = <<>> /\ createRet = NotRun
    /\ retryArgs = [maxRetries |-> 3, baseDelay |-> 1000]
    /\ retryPc = "idle" /\ loopI = 0 /\ lastError = [kind |-> "null"]
    /\ attempts = <<>> /\ running = 0 /\ delays = <<>> /\ retryRet = NotRun
    /\ hookConfig = NoConfig /\ hookState = InitialState /\ connects = <<>>
    /\ disconnectedSince = FALSE /\ hookCall = NoHookCall
    /\ writeHook = [client |-> NULL, hasFunction |-> TRUE]
    /\ writeState = InitialWriteState /\ writes = NoWrites
    /\ readHook = [client |-> NULL, argsGiven |-> TRUE]
    /\ readState = InitialReadState /\ readRender = Mounted /\ reads = 0 /\ refetches = 0
    /\ owner = Deployer /\ museumManager = Deployer
    /\ totalExhibitions = 0 /\ totalRegisteredVisitors = 0
    /\ exhibitions = [id \in ExhibitionIds |-> NoExhibition]
    /\ visitorProfiles = [a \in Addresses |-> NoProfile]
    /\ visitRecords = [a \in Addresses |-> [id \in ExhibitionIds |-> NoRecord]]
    /\ exhibitionVisitors = [id \in ExhibitionIds |-> <<>>]
    /\ typeVisitorCounts = [t \in ExhibitionTypes |-> 0]
    /\ dailyVisitorCounts = [d \in {Today} |-> 0]
    /\ ageGroupCounts = [g \in AgeGroups |-> 0]
    /\ lastTx = NoTx

NextMuseum ==
    \/ \E sender \in Addresses, manager \in {Deployer, "0xM"} :
          SetMuseumManager(sender, manager)
    \/ \E sender \in Addresses, args \in CreateArgs :
          CreateExhibition(sender, args[1], args[2], args[3], args[4])
    \/ \E sender \in Visitors, age \in {0, 30, 120}, fheOk \in BOOLEAN :
          RegisterVisitor(sender, age, fheOk)
    \/ \E sender \in Addresses, id \in ExhibitionIds, args \in RecordArgs :
          RecordPrivateVisit(sender, id, args[1], args[2], args[3], args[4])
    \/ \E sender \in Addresses, id \in ExhibitionIds, fheOk \in BOOLEAN :
          RequestExhibitionStats(sender, id, fheOk)
    \/ \E sender \in Addresses : ProcessStatsReveal(sender)
    \/ \E sender \in Addresses, id \in ExhibitionIds, isActive \in BOOLEAN :
          SetExhibitionStatus(sender, id, isActive)

SpecMuseum == InitMuseum /\ [][NextMuseum]_vars

----------------------------------------------------------------------------
(* Claims *)

\* the width in bits of a width tag, and the closed range [0, 2^w - 1] of the claims
WidthOf(type) ==
    CASE type = "uint8" -> 8 [] type = "uint16" -> 16 [] type = "uint32" -> 32
      [] type = "uint64" -> 64 [] type = "uint128" -> 128 [] type = "uint256" -> 256

MaxOfWidth(type) ==
    IF type = "uint8" THEN Big(FALSE, <<255>>) ELSE Pow2Minus1(WidthOf(type))

InRange(v, type) == ~BigLess(v, Zero) /\ ~BigLess(MaxOfWidth(type), v)

\* the integer a plaintext stands for: a number or bigint is that integer, the
\* string '42' is forty-two
PlainOf(value) ==
    IF value.kind = "str" /\ value.chars = <<"4", "2">> THEN Nat1(42) ELSE value

(* C1: for every width tag and every integer v, toBigInt(v, w) returns v if and   *)
(* only if 0 <= v <= 2^w - 1, and throws for every other v.                       *)
C1_EncoderChecksEveryWidth ==
    (encRet.kind # "notrun" /\ encArg.value.kind = "int") =>
        IF InRange(encArg.value, encArg.type)
        THEN encRet.kind = "ok" /\ encRet.value = encArg.value
        ELSE encRet.kind = "throw"

EncryptOps == {"encryptValue", "encryptBatch"}

OutOfWidth(input) ==
    /\ input.type \in EncTypes
    /\ input.value.kind = "int"
    /\ ~InRange(input.value, input.type)

(* C2: an encryptValue or encryptBatch call one of whose inputs lies outside the   *)
(* range of its declared width fails with the encoder's range error (or, on a     *)
(* client that is not initialized, with that error) and returns no handles.       *)
C2_EncryptionRangeChecked ==
    ( /\ call.op \in EncryptOps
      /\ call.pc = "done"
      /\ \E k \in 1..Len(call.arg) : OutOfWidth(call.arg[k]) ) =>
        /\ result.kind = "throw"
        /\ result.error.message[1] \in {"Value ", "FHEVM client is not initialized"}

Failed(promises) == {k \in 1..Len(promises) : promises[k].kind = "throw"}

(* C3 as stated: a decryptBatch of N requests (here N >= 2, all of them sent to    *)
(* the gateway) of which exactly request k fails yields an array of length N      *)
(* whose slot k is an error and whose other slots hold the decryption results.    *)
C3_PartialFailureIsolated ==
    ( /\ call.op = "decryptBatch"
      /\ call.pc = "done"
      /\ Len(instLog) >= 2
      /\ Cardinality(Failed(subs)) = 1 ) =>
        /\ result.kind = "ok"
        /\ Len(result.value) = Len(call.arg)
        /\ \A k \in 1..Len(subs) :
              subs[k].kind = "ok" => result.value[k] = subs[k].value

(* C3 amended: a decryptBatch of N requests of which exactly request k fails       *)
(* fails as a whole with request k's error, from the moment request k fails and   *)
(* whatever the other requests do; it yields an array, of length N with slot i    *)
(* the result of request i, only when all N requests succeeded.                   *)
C3_BatchFailsAsAWhole ==
    call.op = "decryptBatch" =>
        /\ \A k \in 1..Len(subs) :
              Failed(subs) = {k} =>
                  /\ result.kind = "throw"
                  /\ result.error.message = subs[k].error.message
        /\ result.kind = "ok" =>
              /\ Failed(subs) = {}
              /\ Len(result.value) = Len(call.arg)
              /\ \A k \in 1..Len(subs) :
                    subs[k].kind = "ok" /\ result.value[k] = subs[k].value

C3_Witness ==
    /\ call.op = "decryptBatch"
    /\ call.pc = "done"
    /\ Len(subs) = 2
    /\ subs[1].kind = "ok"
    /\ subs[2].kind = "throw"
    /\ result.kind = "throw"

\* null, never initialized, or torn down
Unusable(c) == c = NULL \/ ~c.isInitialized \/ c.instance = Undefined

GuardedOps == {"encryptValue", "encryptBatch", "decryptValue", "reencrypt"}

(* C4: encryptValue, encryptBatch, decryptValue or reencrypt invoked on a client   *)
(* that is null, was never initialized or was torn down fails with the 'client is *)
(* not initialized' error and makes no call on the FHE instance.                  *)
C4_UnusableClientSurfaced ==
    [][ ( /\ call.pc = "idle"
          /\ call'.pc # "idle"
          /\ call'.op \in GuardedOps
          /\ Unusable(client) ) =>
            /\ call'.pc = "done"
            /\ result'.kind = "throw"
            /\ result'.error = NotInitializedError
            /\ instLog' = <<>> ]_vars

\* a client createFHEVMClient returned, torn down by disconnectClient before the call
C4_Witness ==
    /\ call.op = "decryptValue"
    /\ call.pc = "done"
    /\ client # NULL
    /\ client.signer = "0xA"
    /\ client.instance # Undefined
    /\ ~client.isInitialized
    /\ result.kind = "throw"
    /\ result.error.message[1] = "FHEVM client is not initialized"
    /\ instLog = <<>>

AddOfWidth ==
    [bits \in {8, 16, 32, 64, 128, 256} |->
        CASE bits = 8 -> "add8" [] bits = 16 -> "add16" [] bits = 32 -> "add32"
          [] bits = 64 -> "add64" [] bits = 128 -> "add128" [] bits = 256 -> "add256"]

(* C5: an encryptBatch that returns made exactly one add call per input, in the   *)
(* order of the inputs and each with the add operation of the input's own width,  *)
(* and the i-th handle it returns is the handle of the i-th input.                *)
C5_BatchOrderPreserved ==
    (call.op = "encryptBatch" /\ call.pc = "done" /\ result.kind = "ok") =>
        /\ Len(result.value.handles) = Len(call.arg)
        /\ Len(instLog) = Len(call.arg) + 2
        /\ \A k \in 1..Len(call.arg) :
              /\ instLog[k + 1].method = AddOfWidth[WidthOf(call.arg[k].type)]
              /\ instLog[k + 1].value = PlainOf(call.arg[k].value)
              /\ result.value.handles[k].ciphertextOf.bits = WidthOf(call.arg[k].type)
              /\ result.value.handles[k].ciphertextOf.value = PlainOf(call.arg[k].value)

C5_Witness ==
    /\ call.op = "encryptBatch"
    /\ call.pc = "done"
    /\ result.kind = "ok"
    /\ Len(call.arg) = 2
    /\ call.arg[1] = [value |-> Nat1(25), type |-> "uint8"]
    /\ call.arg[2] = [value |-> Nat1(300), type |-> "uint32"]
    /\ result.value.handles[2].ciphertextOf = [bits |-> 32, value |-> Nat1(300)]

DecryptValueDone == call.op = "decryptValue" /\ call.pc = "done" /\ instLog # <<>>

GatewayGavePlaintext ==
    answers[1].kind = "plain" /\ answers[1].value.kind = "int"

(* C6 as stated: decryptValue returns {value, decrypted: true} only when the       *)
(* gateway gave a plaintext; on every failure it throws a 'Decryption failed'     *)
(* error whose message carries the message of what the gateway raised.            *)
C6_FailureCarriesOriginalMessage ==
    DecryptValueDone =>
        IF GatewayGavePlaintext
        THEN /\ result.kind = "ok"
             /\ result.value = [value |-> answers[1].value, decrypted |-> TRUE]
        ELSE /\ result.kind = "throw"
             /\ result.error.message[1] = "Decryption failed: "
             /\ answers[1].kind = "throw" =>
                   result.error.message[2] = answers[1].error.message

(* C6 amended: as stated, but the message carries the original message only when  *)
(* the gateway raised an Error object; when it raised any other value the message *)
(* is 'Decryption failed: Unknown error'.                                         *)
C6_FailureWrapped ==
    DecryptValueDone =>
        IF GatewayGavePlaintext
        THEN /\ result.kind = "ok"
             /\ result.value = [value |-> answers[1].value, decrypted |-> TRUE]
        ELSE /\ result.kind = "throw"
             /\ result.error.isError
             /\ result.error.message[1] = "Decryption failed: "
             /\ answers[1].kind = "throw" =>
                   result.error.message[2] =
                       IF answers[1].error.isError THEN answers[1].error.message
                       ELSE <<"Unknown error">>

C6_Witness ==
    /\ DecryptValueDone
    /\ answers[1].kind = "throw"
    /\ answers[1].error.isError
    /\ result.kind = "throw"
    /\ result.error.message = <<"Decryption failed: ", <<"Unauthorized">>>>

(* C7: decryptValue never returns a decryption result for a request whose         *)
(* userAddress is not the address of the session's signer.                        *)
C7_RequesterMustBeSigner ==
    ( /\ DecryptValueDone
      /\ call.arg[1].userAddress # SignerAddress(client) ) =>
        result.kind = "throw"

ConfigIncomplete ==
    ~config.provider \/ ~config.contractAddress \/ ~config.contractABI

(* C8: createFHEVMClient with a config that lacks provider, contractAddress or    *)
(* contractABI fails with a configuration error before getNetwork or              *)
(* createInstance is called, and returns no client.                               *)
C8_IncompleteConfigRejected ==
    (createPc # "idle" /\ ConfigIncomplete) =>
        /\ createPc = "done"
        /\ createRet.kind = "throw"
        /\ createRet.error.message[1] = "Missing required configuration"
        /\ \A n \in 1..Len(createLog) : createLog[n] \notin {"getNetwork", "createInstance"}

Invocations == Len(attempts) + running

(* C9: retry invokes fn at most maxRetries times and one invocation at a time; it *)
(* stops at the first invocation that succeeds and returns its value; when every  *)
(* invocation fails it has invoked fn exactly maxRetries times.                   *)
C9_RetryAttempts ==
    /\ Invocations <= retryArgs.maxRetries
    /\ running \in {0, 1}
    /\ \A k \in 1..(Len(attempts) - 1) : attempts[k].kind = "throw"
    /\ (attempts # <<>> /\ attempts[Len(attempts)].kind = "ok") =>
          /\ retryPc = "done"
          /\ running = 0
          /\ retryRet = Returned(attempts[Len(attempts)].value)
    /\ retryRet.kind = "ok" => (attempts # <<>> /\ attempts[Len(attempts)].kind = "ok")
    /\ (retryPc = "done" /\ \A k \in 1..Len(attempts) : attempts[k].kind = "throw") =>
          /\ Len(attempts) = retryArgs.maxRetries
          /\ retryRet.kind = "throw"

C9_Witness ==
    /\ retryPc = "done"
    /\ retryArgs.maxRetries = 3
    /\ Len(attempts) = 3
    /\ attempts[1].kind = "throw"
    /\ attempts[2].kind = "throw"
    /\ retryRet = Returned("v1")

(* C10: the k-th wait of retry follows the failed attempt with index k - 1 and    *)
(* lasts baseDelay * 2^(k-1); there is no wait before the first attempt, after a  *)
(* successful attempt or after the last failed attempt.                           *)
C10_BackoffDelays ==
    /\ \A k \in 1..Len(delays) : delays[k] = retryArgs.baseDelay * 2^(k - 1)
    /\ retryPc = "idle" => delays = <<>>
    /\ retryPc = "fn" => Len(delays) = Len(attempts)
    /\ retryPc = "sleep" =>
          /\ Len(delays) = Len(attempts)
          /\ attempts[Len(attempts)].kind = "throw"
          /\ Len(attempts) < retryArgs.maxRetries
    /\ retryPc = "done" =>
          Len(delays) = IF attempts = <<>> THEN 0 ELSE Len(attempts) - 1

C10_Witness ==
    /\ retryPc = "done"
    /\ retryArgs.baseDelay = 100
    /\ delays = <<100, 200, 400>>
    /\ retryRet.kind = "ok"

AllAttemptsFailed ==
    /\ retryPc = "done"
    /\ attempts # <<>>
    /\ \A k \in 1..Len(attempts) : attempts[k].kind = "throw"

LastRaised == attempts[Len(attempts)].error

(* C11 as stated: when every attempt of retry failed, retry throws exactly the     *)
(* value the last attempt threw, whatever kind of value that is.                  *)
C11_LastErrorUnchanged ==
    AllAttemptsFailed => retryRet = Thrown(LastRaised)

(* C11 amended: when every attempt of retry failed, retry throws exactly the value *)
(* the last attempt threw when that value is an Error object, and a new Error     *)
(* 'Unknown error' in its place when the last attempt threw any other value.      *)
C11_LastErrorUnchangedIfError ==
    AllAttemptsFailed =>
        /\ retryRet.kind = "throw"
        /\ LastRaised.isError => retryRet.error = LastRaised
        /\ ~LastRaised.isError => retryRet.error = [isError |-> TRUE,
                                                    message |-> <<"Unknown error">>]

C11_Witness ==
    /\ AllAttemptsFailed
    /\ Len(attempts) = 3
    /\ attempts[1].error.message = <<"gateway down">>
    /\ attempts[2].error.message = <<"timeout">>
    /\ attempts[3].error.message = <<"denied">>
    /\ retryRet.error.message = <<"denied">>

(* C17: isValidValue(value, type) never throws, for an integer as for a value that *)
(* is no integer: it returns true exactly when toBigInt(value, type) returns and  *)
(* false exactly when toBigInt(value, type) throws.                               *)
C17_ValidityMirrorsEncoder ==
    validRet.kind # "notrun" =>
        /\ validRet.kind = "ok"
        /\ validRet.value \in BOOLEAN
        /\ encRet.kind # "notrun" => (validRet.value <=> encRet.kind = "ok")

C17_Witness ==
    /\ encArg = [value |-> Nat1(256), type |-> "uint8"]
    /\ encRet.kind = "throw"
    /\ validRet = Returned(FALSE)

(* C12: canDecrypt never throws; it returns true exactly when the decryptValue it  *)
(* wraps succeeds, that is when the gateway gave a plaintext for the handle, and  *)
(* false for every failure: a throw of the gateway (a denial, a network failure), *)
(* an answer that is no integer, a client that is null or not initialized.        *)
C12_CanDecryptNeverRaises ==
    call.op = "canDecrypt" =>
        /\ result.kind # "throw"
        /\ call.pc = "done" =>
              /\ result.kind = "ok"
              /\ result.value =
                    ( /\ answers # <<>>
                      /\ answers[1].kind = "plain"
                      /\ answers[1].value.kind = "int" )

C12_Witness ==
    /\ call.op = "canDecrypt"
    /\ call.pc = "done"
    /\ answers # <<>>
    /\ answers[1].kind = "throw"
    /\ answers[1].error.message = <<"Unauthorized">>
    /\ result = Returned(FALSE)

AllAnsweredWithPlaintext ==
    /\ Len(answers) = Len(call.arg)
    /\ \A i \in 1..Len(answers) :
          answers[i].kind = "plain" /\ answers[i].value.kind = "int"

DecryptOf(request) ==
    [method |-> "decrypt", contractAddress |-> request.contractAddress,
     handle |-> request.handle]

(* C13: a decryptBatch of N requests all of which succeed returns N results, the   *)
(* i-th being the plaintext the gateway gave for the handle of the i-th request,  *)
(* in whatever order the gateway answered.                                        *)
C13_ResultsInRequestOrder ==
    (call.op = "decryptBatch" /\ call.pc = "done" /\ AllAnsweredWithPlaintext) =>
        /\ result.kind = "ok"
        /\ Len(result.value) = Len(call.arg)
        /\ \A i \in 1..Len(call.arg) :
              /\ instLog[i] = DecryptOf(call.arg[i])
              /\ result.value[i] = [value |-> answers[i].value, decrypted |-> TRUE]

\* the second request answered first
C13_Witness ==
    /\ call.op = "decryptBatch"
    /\ call.pc = "done"
    /\ completed = <<2, 1>>
    /\ call.arg[1].handle # call.arg[2].handle
    /\ result.kind = "ok"
    /\ result.value[1].value = Nat1(25)
    /\ result.value[2].value = Nat1(300)

CallsOf(method) == {n \in 1..Len(instLog) : instLog[n].method = method}

(* C15: an encryptBatch call creates at most one encrypted-input builder and calls *)
(* encrypt() at most once; when it returns it did each exactly once, for any      *)
(* number of inputs, and it returns one handle per input together with a single   *)
(* proof that covers exactly the inputs of the call, in their order.              *)
C15_OneBuilderOneProof ==
    call.op = "encryptBatch" =>
        /\ Cardinality(CallsOf("createEncryptedInput")) <= 1
        /\ Cardinality(CallsOf("encrypt")) <= 1
        /\ (call.pc = "done" /\ result.kind = "ok") =>
              /\ CallsOf("createEncryptedInput") = {1}
              /\ CallsOf("encrypt") = {Len(instLog)}
              /\ Len(result.value.handles) = Len(call.arg)
              /\ Len(result.value.inputProof.proves) = Len(call.arg)
              /\ \A k \in 1..Len(call.arg) :
                    /\ result.value.inputProof.proves[k].bits = WidthOf(call.arg[k].type)
                    /\ result.value.inputProof.proves[k].value = PlainOf(call.arg[k].value)

C15_Witness ==
    /\ call.op = "encryptBatch"
    /\ call.pc = "done"
    /\ result.kind = "ok"
    /\ Len(call.arg) = 2
    /\ Len(instLog) = 4
    /\ Len(result.value.inputProof.proves) = 2

(* C18: the provider, signer, contract and instance of a client never change under *)
(* any adapter call; the only change a client undergoes is isInitialized going    *)
(* from true to false, in a disconnectClient step, which touches no call.         *)
C18_ClientFieldsFrozen ==
    [][ client' # client =>
          /\ client # NULL
          /\ client' # NULL
          /\ client'.provider = client.provider
          /\ client'.signer = client.signer
          /\ client'.contract = client.contract
          /\ client'.instance = client.instance
          /\ client.isInitialized
          /\ ~client'.isInitialized
          /\ UNCHANGED <<call, subs, result, instLog, answers>> ]_vars

\* a created client, torn down while an encryption was in flight on it
C18_Witness ==
    /\ call.op = "encryptValue"
    /\ call.pc = "done"
    /\ result.kind = "ok"
    /\ client # NULL
    /\ client.signer = "0xA"
    /\ client.instance = "instance"
    /\ ~client.isInitialized

Position(log, what) == {n \in 1..Len(log) : log[n] = what}

(* C19: createFHEVMClient calls createInstance only after getNetwork has answered, *)
(* returns a client (with isInitialized = true) only after createInstance has     *)
(* answered, and when getNetwork or createInstance fails the call fails and       *)
(* returns no client.                                                             *)
C19_HandshakeOrdering ==
    /\ [] ( /\ \A n \in Position(createLog, "createInstance") :
                  /\ \E m \in Position(createLog, "getNetwork") : m < n
                  /\ createPc # "getNetwork"
            /\ createRet.kind = "ok" =>
                  /\ createPc = "done"
                  /\ Position(createLog, "createInstance") # {}
                  /\ createRet.value.isInitialized
            /\ createPc \in {"getNetwork", "getConnection", "createInstance"} =>
                  createRet.kind = "notrun" )
    /\ [][ (GetNetworkSettle(FALSE) \/ CreateInstanceSettle(FALSE)) =>
              (createPc' = "done" /\ createRet'.kind = "throw") ]_vars

C19_Witness ==
    /\ createPc = "done"
    /\ createRet.kind = "ok"
    /\ createRet.value.isInitialized
    /\ createLog = <<"new Contract", "getNetwork", "_getConnection", "createInstance">>

(* C20: a decryptBatch on an initialized client has made the gateway decrypt call  *)
(* of every request, in request order, before any of them is answered; no call is *)
(* given up: as long as a call is unanswered the batch still takes its answer,    *)
(* also after another request failed and the batch was rejected.                  *)
C20_AllStartedNoneCancelled ==
    (call.op = "decryptBatch" /\ call.instance # Undefined) =>
        /\ Len(instLog) = Len(call.arg)
        /\ \A i \in 1..Len(call.arg) :
              /\ instLog[i] = DecryptOf(call.arg[i])
              /\ answers[i].kind = "notrun" =>
                    /\ call.pc = "gateway"
                    /\ \A o \in GatewayOutcomes(call.arg[i].handle) :
                          ENABLED GatewayRespond(i, o)

\* the first request failed, the second was answered after that
C20_Witness ==
    /\ call.op = "decryptBatch"
    /\ call.pc = "done"
    /\ completed = <<1, 2>>
    /\ answers[1].kind = "throw"
    /\ result.kind = "throw"
    /\ answers[2].kind = "plain"
    /\ subs[2].kind = "ok"

OwnPlaintexts(id) ==
    [k \in 1..Len(encCalls[id].arg) |-> PlainOf(encCalls[id].arg[k].value)]

(* C14: with several encryptValue / encryptBatch calls in flight on one client,    *)
(* the proof a call returns covers exactly the values of that call's own inputs,  *)
(* in their order, and its handles are the handles of exactly these values; every *)
(* builder holds values of the one call that created it only, and no two calls    *)
(* use the same builder.                                                          *)
C14_HandlesAndProofOfOneCall ==
    /\ \A id \in 1..MaxCalls :
          encCalls[id].result.kind = "ok" =>
              LET proves == encCalls[id].result.value.inputProof.proves
              IN  /\ [k \in 1..Len(proves) |-> proves[k].value] = OwnPlaintexts(id)
                  /\ encCalls[id].result.value.handles =
                        [k \in 1..Len(proves) |-> [ciphertextOf |-> proves[k]]]
    /\ \A b \in 1..Len(builders) :
          /\ Len(builders[b].added) <= Len(encCalls[builders[b].by].arg)
          /\ \A k \in 1..Len(builders[b].added) :
                builders[b].added[k].value = OwnPlaintexts(builders[b].by)[k]
          /\ \A other \in 1..Len(builders) :
                builders[other].by = builders[b].by => other = b

\* call 1 was invoked first and was still waiting while call 2 ran to its return
C14_Witness ==
    /\ Len(builders) = 2
    /\ builders[1].by = 2
    /\ builders[2].by = 1
    /\ encCalls[1].op = "encryptBatch"
    /\ encCalls[1].result.kind = "ok"
    /\ encCalls[2].op = "encryptValue"
    /\ encCalls[2].result.kind = "ok"
    /\ encCalls[2].arg[1].value = Pow2Minus1(64)

ValidInput(input) ==
    /\ input.type \in EncTypes
    /\ PlainOf(input.value).kind = "int"
    /\ InRange(PlainOf(input.value), input.type)

(* C16: when encryptValue returned a handle for a valid (value, width) input and   *)
(* decryptValue is then called with that handle on the same session, and the      *)
(* gateway, the requester being authorized, answers with the plaintext under the  *)
(* handle, decryptValue returns exactly the integer that was given to             *)
(* encryptValue, with decrypted = true.                                           *)
C16_RoundTrip ==
    \A id \in 1..MaxCalls :
        ( /\ encCalls[id].op = "encryptValue"
          /\ encCalls[id].result.kind = "ok"
          /\ ValidInput(encCalls[id].arg[1])
          /\ call.op = "decryptValue"
          /\ call.pc = "done"
          /\ instLog # <<>>
          /\ call.arg[1].handle = encCalls[id].result.value.handles[1]
          /\ answers[1].kind = "plain"
          /\ answers[1].value = call.arg[1].handle.ciphertextOf.value ) =>
            result = Returned([value |-> PlainOf(encCalls[id].arg[1].value),
                               decrypted |-> TRUE])

C16_Witness ==
    /\ encCalls[1].op = "encryptValue"
    /\ encCalls[1].arg = <<[value |-> Str(<<"4", "2">>), type |-> "uint16"]>>
    /\ encCalls[1].result.kind = "ok"
    /\ call.op = "decryptValue"
    /\ call.pc = "done"
    /\ call.arg[1].handle = encCalls[1].result.value.handles[1]
    /\ result = Returned([value |-> Nat1(42), decrypted |-> TRUE])

DecryptUintOps == {"decryptUint8", "decryptUint32"}

NarrowWidth == [op \in DecryptUintOps |-> IF op = "decryptUint8" THEN "uint8" ELSE "uint32"]

(* C21: for every handle, a decryptUint8 that returns gives a number in 0..255    *)
(* and a decryptUint32 one in 0..4294967295, and the number equals the integer   *)
(* decryptValue yields for the same contract address and handle, which is the    *)
(* plaintext the gateway gave.                                                   *)
C21_NarrowedToWidth ==
    (call.op \in DecryptUintOps /\ call.pc = "done" /\ result.kind = "ok") =>
        /\ result.value.kind = "number"
        /\ InRange(Big(result.value.neg, result.value.mag), NarrowWidth[call.op])
        /\ Big(result.value.neg, result.value.mag) = answers[1].value

(* C22: in every state the useFHEVM hook can reach, under any interleaving of     *)
(* connect, disconnect and operation calls and of their completions, isConnected  *)
(* is true exactly when client is not null.                                       *)
C22_ConnectedIffClient == hookState.isConnected <=> hookState.client # NULL

\* connected, and a further connect call in flight
C22_Witness ==
    /\ hookState.isConnected
    /\ hookState.client # NULL
    /\ hookState.isLoading
    /\ Len(connects) > 0

(* C23: after disconnect() the hook stays disconnected (client null, isConnected   *)
(* false) until a connect call is made after it, also when a connect call made    *)
(* before it was still in flight and completes afterwards.                        *)
C23_StaysDisconnected ==
    disconnectedSince => (hookState.client = NULL /\ ~hookState.isConnected)

(* C24: isLoading is true exactly while a connect call that passed the check of   *)
(* its config is in flight, that is awaiting createFHEVMClient.                   *)
C24_LoadingIffConnecting == hookState.isLoading <=> Len(connects) > 0

HasInitializedClient ==
    /\ hookState.client # NULL
    /\ hookState.client.isInitialized
    /\ hookState.client.instance # Undefined

(* C25: encrypt, encryptMultiple, decrypt, decryptU8 and decryptU32 of the hook    *)
(* never reject. With no initialized client the call resolves to null, sets error *)
(* to 'Client not initialized' and calls no adapter; on an initialized client it  *)
(* calls the adapter, and when the adapter fails it resolves to null and records  *)
(* the error (the Error thrown, or a new Error for any other value), when the     *)
(* adapter succeeds it resolves to the adapter's result and leaves client,        *)
(* isConnected, isLoading and error as they were.                                 *)
C25_OperationsNeverReject ==
    [][ hookCall' # hookCall =>
          /\ hookCall'.ret.kind # "throw"
          /\ hookCall.pc # "adapter" =>
                IF HasInitializedClient
                THEN hookCall'.pc = "adapter" /\ hookState' = hookState
                ELSE /\ hookCall'.pc = "done"
                     /\ hookCall'.adapter = NotRun
                     /\ hookCall'.ret = Returned(NULL)
                     /\ hookState' = [hookState EXCEPT
                                        !.error = Error(<<"Client not initialized">>)]
          /\ hookCall.pc = "adapter" =>
                /\ hookCall'.pc = "done"
                /\ hookCall'.adapter.kind \in {"ok", "throw"}
                /\ hookCall'.adapter.kind = "throw" =>
                      /\ hookCall'.ret = Returned(NULL)
                      /\ hookState'.error.isError
                      /\ hookCall'.adapter.error.isError =>
                            hookState'.error = hookCall'.adapter.error
                      /\ hookState' = [hookState EXCEPT !.error = hookState'.error]
                /\ hookCall'.adapter.kind = "ok" =>
                      /\ hookCall'.ret =
                            Returned(IF hookCall.op = "decrypt"
                                     THEN hookCall'.adapter.value.value
                                     ELSE hookCall'.adapter.value)
                      /\ hookState' = hookState
      ]_vars

\* an operation whose adapter threw a value that is no Error has resolved to null
C25_Witness ==
    /\ hookCall.pc = "done"
    /\ hookCall.adapter.kind = "throw"
    /\ ~hookCall.adapter.error.isError
    /\ hookCall.ret = Returned(NULL)
    /\ hookState.error = Error(<<"Encryption failed">>)
    /\ hookState.isConnected

\* write call id failed: it resolved to null and error is set
WriteFailedAs(id, err) ==
    /\ writes'[id].pc = "done"
    /\ writes'[id].ret = Returned(NULL)
    /\ writeState'.error # NULL
    /\ writeState'.error.isError
    /\ err.isError => writeState'.error = err

(* C26: a write call of useFHEVMWrite on an initialized client never rejects; it   *)
(* resolves to the transaction only in the step in which tx.wait() confirmed, the  *)
(* contract call having been submitted before; when the submission or the         *)
(* confirmation fails it resolves to null with error set; isLoading is false      *)
(* after the step in which the call settles; and txHash is set to the hash of the *)
(* transaction in the step in which the submission answers, the call then being   *)
(* unsettled and waiting for the confirmation.                                    *)
C26_WriteSettlesAfterConfirmation ==
    [][ \A id \in DOMAIN writes :
          ( /\ writes'[id] # writes[id]
            /\ writeHook.client # NULL
            /\ isClientInitialized(writeHook.client) ) =>
              /\ writes'[id].ret.kind # "throw"
              /\ writes'[id].pc = "done" => ~writeState'.isLoading
              /\ (writes'[id].ret.kind = "ok" /\ writes'[id].ret.value # NULL) =>
                    /\ writes[id].pc = "wait"
                    /\ writes[id].submitted.kind = "ok"
                    /\ writes'[id].waited.kind = "ok"
                    /\ writes'[id].ret.value = writes[id].submitted.value
              /\ writes[id].pc = "idle" =>
                    IF writeHook.hasFunction
                    THEN /\ writes'[id].pc = "submit"
                         /\ writes'[id].ret = NotRun
                         /\ writeState' = [isLoading |-> TRUE, error |-> NULL,
                                           txHash |-> NULL]
                    ELSE WriteFailedAs(id, writeState'.error)
              /\ writes[id].pc = "submit" =>
                    IF writes'[id].submitted.kind = "ok"
                    THEN /\ writes'[id].pc = "wait"
                         /\ writes'[id].ret = NotRun
                         /\ writeState'.txHash = writes'[id].submitted.value.hash
                    ELSE /\ writes'[id].submitted.kind = "throw"
                         /\ WriteFailedAs(id, writes'[id].submitted.error)
              /\ writes[id].pc = "wait" =>
                    IF writes'[id].waited.kind = "ok"
                    THEN /\ writes'[id].pc = "done"
                         /\ writes'[id].ret = Returned(writes[id].submitted.value)
                    ELSE /\ writes'[id].waited.kind = "throw"
                         /\ WriteFailedAs(id, writes'[id].waited.error)
      ]_vars

\* one write resolved to its transaction after the confirmation, while another,
\* submitted after it, still waits for its own
C26_Witness ==
    /\ writes[1].pc = "done"
    /\ writes[1].waited.kind = "ok"
    /\ writes[1].ret = Returned(Tx(1))
    /\ writes[2].pc = "wait"
    /\ writeState.txHash = Tx(2).hash
    /\ ~writeState.isLoading

\* nothing is loading, no contract read is in flight, no render and no effect is
\* due: the hook does nothing more until its arguments change or refetch is called
ReadQuiescent ==
    /\ ~readState.isLoading
    /\ reads = 0
    /\ ~readRender.pending
    /\ ~readRender.effect

(* C27: with an initialized client and no args argument passed, useFHEVMRead       *)
(* eventually reaches, and stays in, a state with isLoading false in which no     *)
(* contract read is in flight and none will be issued (no render, no effect due), *)
(* the client, the function name and args staying the same and refetch being      *)
(* called at most MaxRefetches times.                                             *)
C27_ReadsBecomeQuiescent ==
    (readHook.client # NULL /\ isClientInitialized(readHook.client) /\ ~readHook.argsGiven)
        => <>[]ReadQuiescent

ManagerFunctions == {"createExhibition", "setExhibitionStatus", "requestExhibitionStats"}

(* C28: in PrivateMuseumVisitTracker no transaction changes owner; museumManager    *)
(* changes only in a setMuseumManager transaction sent by owner; and a              *)
(* createExhibition, setExhibitionStatus or requestExhibitionStats transaction     *)
(* sent by an account that is neither museumManager nor owner reverts and leaves   *)
(* the contract's storage as it was.                                               *)
C28_AccessControl ==
    [][ /\ owner' = owner
        /\ museumManager' # museumManager =>
              /\ lastTx'.fn = "setMuseumManager"
              /\ lastTx'.sender = owner
              /\ ~lastTx'.reverted
        /\ ( /\ lastTx'.fn \in ManagerFunctions
             /\ lastTx'.sender # museumManager
             /\ lastTx'.sender # owner ) =>
              /\ lastTx'.reverted
              /\ storage' = storage
      ]_vars

\* the manager is no longer the owner, exhibitions exist, and a third account's
\* setExhibitionStatus has just reverted
C28_Witness ==
    /\ museumManager = "0xM"
    /\ owner = Deployer
    /\ totalExhibitions > 0
    /\ lastTx = [fn |-> "setExhibitionStatus", sender |-> "0xV", reverted |-> TRUE]

RecordedVisitors(e) == {v \in Addresses : visitRecords[v][e].isRecorded}

(* C29: in every reachable state of PrivateMuseumVisitTracker and for every         *)
(* exhibition id e, exhibitions[e].publicVisitorCount equals the length of         *)
(* exhibitionVisitors[e] and the number of addresses v with                        *)
(* visitRecords[v][e].isRecorded; no address is twice in exhibitionVisitors[e],    *)
(* and every address in it is a registered visitor.                                *)
C29_VisitorCountsAgree ==
    \A e \in ExhibitionIds :
        /\ exhibitions[e].publicVisitorCount = Len(exhibitionVisitors[e])
        /\ exhibitions[e].publicVisitorCount = Cardinality(RecordedVisitors(e))
        /\ \A i, j \in 1..Len(exhibitionVisitors[e]) :
              exhibitionVisitors[e][i] = exhibitionVisitors[e][j] => i = j
        /\ \A i \in 1..Len(exhibitionVisitors[e]) :
              visitorProfiles[exhibitionVisitors[e][i]].isRegistered

\* two visitors recorded a visit of exhibition 1, and one of them just tried again
C29_Witness ==
    /\ exhibitions[1].publicVisitorCount = 2
    /\ Len(exhibitionVisitors[1]) = 2
    /\ exhibitions[1].isActive
    /\ lastTx = [fn |-> "recordPrivateVisit", sender |-> "0xV", reverted |-> TRUE]

Registered == {a \in Addresses : visitorProfiles[a].isRegistered}

(* C30: in every reachable state of PrivateMuseumVisitTracker                       *)
(* totalRegisteredVisitors is the number of addresses whose visitorProfiles entry  *)
(* has isRegistered true; a registerVisitor transaction of an address that is      *)
(* registered reverts and leaves the storage as it was; and no transaction takes   *)
(* a registration back.                                                            *)
C30_RegistrationsCounted ==
    /\ [](totalRegisteredVisitors = Cardinality(Registered))
    /\ [][ /\ \A a \in Registered : visitorProfiles'[a].isRegistered
           /\ (lastTx'.fn = "registerVisitor" /\ lastTx'.sender \in Registered) =>
                 /\ lastTx'.reverted
                 /\ storage' = storage
         ]_vars

\* both visitors are registered and one of them just tried to register again
C30_Witness ==
    /\ totalRegisteredVisitors = 2
    /\ Registered = Visitors
    /\ lastTx = [fn |-> "registerVisitor", sender |-> "0xM", reverted |-> TRUE]

====
